---- MODULE Spec2Model ----
(***************************************************************************)
(* Model of the stream pipeline of ezStremio: handleStream (query          *)
(* expansion, bounded concurrent search, filter and dedup, bounded         *)
(* concurrent extraction, ranking) and the helpers it calls.               *)
(*                                                                         *)
(* Strings are TLC strings, used as sequences of characters (Len, SubSeq,  *)
(* \o).  Characters of the source outside ASCII are written as ASCII       *)
(* stand-ins: an accented letter is a two-character digraph (a circumflex   *)
(* or a tilde followed by the base letter) and each pictogram of the       *)
(* display formats is a bracketed name such as "<bolt>".                   *)
(***************************************************************************)
EXTENDS Integers, Sequences, FiniteSets, Bags, TLC

(***************************************************************************)
(* Go's strings package, as far as handleStream and its helpers use it.    *)
(***************************************************************************)

\* unicode.IsSpace restricted to the characters of the model's alphabet.
IsSpace(c) == c \in {" ", "\t", "\n", "\r"}

IsDigit(c) == c \in {"0", "1", "2", "3", "4", "5", "6", "7", "8", "9"}

DigitVal(c) ==
  CASE c = "0" -> 0 [] c = "1" -> 1 [] c = "2" -> 2 [] c = "3" -> 3
    [] c = "4" -> 4 [] c = "5" -> 5 [] c = "6" -> 6 [] c = "7" -> 7
    [] c = "8" -> 8 [] c = "9" -> 9

DigitChar(d) == SubSeq("0123456789", d + 1, d + 1)

\* The character at position i; "" outside the string.
CharAt(s, i) == IF 1 <= i /\ i <= Len(s) THEN SubSeq(s, i, i) ELSE ""

\* strings.HasPrefix applied to the text of s from position i on.
HasPrefixAt(s, i, t) ==
  /\ i + Len(t) - 1 <= Len(s)
  /\ SubSeq(s, i, i + Len(t) - 1) = t

HasPrefix(s, t) == HasPrefixAt(s, 1, t)

HasSuffix(s, t) ==
  /\ Len(t) <= Len(s)
  /\ SubSeq(s, Len(s) - Len(t) + 1, Len(s)) = t

\* The positions at or after i where t occurs in s.
OccurrencesFrom(s, t, i) ==
  {j \in i..(Len(s) - Len(t) + 1) : SubSeq(s, j, j + Len(t) - 1) = t}

SetMin(S) == CHOOSE m \in S : \A n \in S : m <= n

SetMax(S) == CHOOSE m \in S : \A n \in S : m >= n

\* strings.Index, 1-based; 0 when t does not occur at or after position i.
IndexFrom(s, t, i) ==
  LET occ == OccurrencesFrom(s, t, i) IN
    IF occ = {} THEN 0 ELSE SetMin(occ)

Index(s, t) == IndexFrom(s, t, 1)

Contains(s, t) == Index(s, t) > 0

\* strings.ReplaceAll for a non-empty old: non-overlapping, left to right.
RECURSIVE ReplaceAll(_, _, _)
ReplaceAll(s, old, new) ==
  LET i == Index(s, old) IN
    IF i = 0 THEN s
    ELSE SubSeq(s, 1, i - 1) \o new
           \o ReplaceAll(SubSeq(s, i + Len(old), Len(s)), old, new)

RECURSIVE TrimLeft(_)
TrimLeft(s) ==
  IF Len(s) > 0 /\ IsSpace(CharAt(s, 1)) THEN TrimLeft(SubSeq(s, 2, Len(s)))
  ELSE s

RECURSIVE TrimRight(_)
TrimRight(s) ==
  IF Len(s) > 0 /\ IsSpace(CharAt(s, Len(s)))
  THEN TrimRight(SubSeq(s, 1, Len(s) - 1))
  ELSE s

TrimSpace(s) == TrimLeft(TrimRight(s))

TrimSuffix(s, t) ==
  IF HasSuffix(s, t) THEN SubSeq(s, 1, Len(s) - Len(t)) ELSE s

\* strings.Split(s, sep) for a non-empty sep: the pieces between the
\* occurrences of sep, as a sequence of strings.
RECURSIVE Split(_, _)
Split(s, sep) ==
  LET i == Index(s, sep) IN
    IF i = 0 THEN <<s>>
    ELSE <<SubSeq(s, 1, i - 1)>> \o Split(SubSeq(s, i + Len(sep), Len(s)), sep)

\* The longest run of digits of s starting at position i (may be empty).
RECURSIVE DigitsAt(_, _)
DigitsAt(s, i) ==
  IF i <= Len(s) /\ IsDigit(CharAt(s, i))
  THEN CharAt(s, i) \o DigitsAt(s, i + 1)
  ELSE ""

\* The first position at or after i that holds no white space.
RECURSIVE SkipSpace(_, _)
SkipSpace(s, i) ==
  IF i <= Len(s) /\ IsSpace(CharAt(s, i)) THEN SkipSpace(s, i + 1) ELSE i

RECURSIVE DigitsVal(_)
DigitsVal(d) ==
  IF d = "" THEN 0
  ELSE 10 * DigitsVal(SubSeq(d, 1, Len(d) - 1)) + DigitVal(CharAt(d, Len(d)))

AllDigits(d) == d # "" /\ DigitsAt(d, 1) = d

\* strconv.Atoi with the error dropped (value 0 on error): an optional sign
\* followed by digits only.
Atoi(s) ==
  IF AllDigits(s) THEN DigitsVal(s)
  ELSE IF Len(s) > 1 /\ CharAt(s, 1) = "+" /\ AllDigits(SubSeq(s, 2, Len(s)))
  THEN DigitsVal(SubSeq(s, 2, Len(s)))
  ELSE IF Len(s) > 1 /\ CharAt(s, 1) = "-" /\ AllDigits(SubSeq(s, 2, Len(s)))
  THEN 0 - DigitsVal(SubSeq(s, 2, Len(s)))
  ELSE 0

RECURSIVE NatStr(_)
NatStr(n) ==
  IF n < 10 THEN DigitChar(n) ELSE NatStr(n \div 10) \o DigitChar(n % 10)

\* fmt's %02d: width 2, zero padded, the sign counted in the width.
Fmt02d(n) ==
  IF n < 0 THEN "-" \o NatStr(0 - n)
  ELSE IF n < 10 THEN "0" \o NatStr(n)
  ELSE NatStr(n)

(***************************************************************************)
(* normalizeString (the query expander's normalisation).                   *)
(***************************************************************************)

\* The replacement table, in the order of the source: the accented letters
\* (digraph stand-ins) and then the three separators ":", "-", ".".
Replacements ==
  << <<"^a", "a">>, <<"~c", "c">>, <<"~d", "d">>, <<"^e", "e">>, <<"~e", "e">>,
     <<"^i", "i">>, <<"~n", "n">>, <<"^o", "o">>, <<"~r", "r">>, <<"~s", "s">>,
     <<"~t", "t">>, <<"^u", "u">>, <<"~u", "u">>, <<"^y", "y">>, <<"~z", "z">>,
     <<"^A", "A">>, <<"~C", "C">>, <<"~D", "D">>, <<"^E", "E">>, <<"~E", "E">>,
     <<"^I", "I">>, <<"~N", "N">>, <<"^O", "O">>, <<"~R", "R">>, <<"~S", "S">>,
     <<"~T", "T">>, <<"^U", "U">>, <<"~U", "U">>, <<"^Y", "Y">>, <<"~Z", "Z">>,
     <<":", " ">>, <<"-", " ">>, <<".", " ">> >>

\* The loop over the entries lo..hi of the table, in order: the entries of
\* the second half are applied to the result of the first half.
RECURSIVE ApplyReplacements(_, _, _, _)
ApplyReplacements(s, table, lo, hi) ==
  IF lo = hi
  THEN (IF Contains(s, table[lo][1])
        THEN ReplaceAll(s, table[lo][1], table[lo][2]) ELSE s)
  ELSE LET Second(t) ==
             IF t = "" THEN t
             ELSE ApplyReplacements(t, table, ((lo + hi) \div 2) + 1, hi)
       IN Second(ApplyReplacements(s, table, lo, (lo + hi) \div 2))

\* for strings.Contains(s, "  ") { s = strings.ReplaceAll(s, "  ", " ") }
RECURSIVE CollapseDoubleSpaces(_)
CollapseDoubleSpaces(s) ==
  IF Contains(s, "  ") THEN CollapseDoubleSpaces(ReplaceAll(s, "  ", " "))
  ELSE s

normalizeString(s) ==
  TrimSpace(CollapseDoubleSpaces(
    ApplyReplacements(s, Replacements, 1, Len(Replacements))))

(***************************************************************************)
(* handleStream, query expansion: addVariations, finalQueries and the      *)
(* deduplication.  A title context is a record                             *)
(*   [Name, OriginalName, Year, season, episode]   (all strings).          *)
(***************************************************************************)

addVariations(name) ==
  LET norm == normalizeString(name) IN
    <<name>>
      \o (IF norm # name THEN <<norm>> ELSE <<>>)
      \o (IF Contains(name, ":") THEN <<ReplaceAll(name, ":", " ")>> ELSE <<>>)

\* queries after both addVariations calls
NameQueries(meta) ==
  addVariations(meta.Name)
    \o (IF meta.OriginalName # "" /\ meta.OriginalName # meta.Name
        THEN addVariations(meta.OriginalName) ELSE <<>>)

Years(meta) == IF meta.Year # "" THEN <<meta.Year>> ELSE <<>>

Suffix(season, episode) ==
  IF season # "" /\ episode # ""
  THEN " S" \o Fmt02d(Atoi(season)) \o "E" \o Fmt02d(Atoi(episode))
  ELSE ""

\* a pass that writes the year after the suffix
QueriesYearLast(q, years, suffix) ==
  <<q \o suffix>> \o [k \in 1..Len(years) |-> q \o suffix \o " " \o years[k]]

\* One pass of the loop over queries: q+suffix, then "q y suffix" per year.
QueriesFor(q, years, suffix) ==
  <<q \o suffix>> \o [k \in 1..Len(years) |-> q \o " " \o years[k] \o suffix]

\* The passes of the loop for the queries lo..hi.
RECURSIVE FinalQueriesFrom(_, _, _, _, _)
FinalQueriesFrom(queries, lo, hi, years, suffix) ==
  IF lo > hi THEN <<>>
  ELSE IF lo = hi THEN QueriesFor(queries[lo], years, suffix)
  ELSE FinalQueriesFrom(queries, lo, (lo + hi) \div 2, years, suffix)
         \o FinalQueriesFrom(queries, ((lo + hi) \div 2) + 1, hi, years, suffix)

finalQueries(meta, season, episode) ==
  LET Passes(queries) ==
        FinalQueriesFrom(queries, 1, Len(queries), Years(meta),
                         Suffix(season, episode))
  IN Passes(NameQueries(meta))

SeqRange(s) == {s[k] : k \in 1..Len(s)}

\* a deduplication that compares and keeps the untrimmed query
DedupStepUntrimmed(acc, q0) ==
  IF q0 \notin SeqRange(acc) /\ q0 # "" THEN Append(acc, q0) ELSE acc

\* The loop body of the deduplication: trim, then keep q when it is not
\* empty and not yet in the map.
DedupStep(acc, q0) ==
  LET q == TrimSpace(q0) IN
    IF q \notin SeqRange(acc) /\ q # "" THEN Append(acc, q) ELSE acc

\* The loop over finalQueries from position k, acc being dedupedQueries so
\* far (never longer than fq).
RECURSIVE DedupFrom(_, _, _)
DedupFrom(fq, k, acc) ==
  IF k > Len(fq) \/ Len(acc) > Len(fq) THEN acc
  ELSE DedupFrom(fq, k + 1, DedupStep(acc, fq[k]))

dedupedQueries(meta, season, episode) ==
  DedupFrom(finalQueries(meta, season, episode), 1, <<>>)

(***************************************************************************)
(* extractPrehrajStreams.  A details page is a record                      *)
(*   [ok      : the fetch succeeded with status 200,                       *)
(*    spans   : the texts of the span elements of the list item whose      *)
(*              text contains the resolution marker, in document order,    *)
(*    sources : the segments of the "var sources" literal that contain     *)
(*              "file:", each [file, label] with "" for a field the        *)
(*              segment's pattern does not match].                         *)
(* A search hit (PrehrajResult) is [Title, Duration, Size, URL]; a stream  *)
(* (Stream) is [Name, Title, URL].                                         *)
(***************************************************************************)

ResolutionMarker == "Rozli~sen^i:"

\* The Each loop over the spans: every span without the marker assigns.
RECURSIVE realResolutionFrom(_, _, _)
realResolutionFrom(spans, k, cur) ==
  IF k > Len(spans) THEN cur
  ELSE realResolutionFrom(spans, k + 1,
         IF ~Contains(spans[k], ResolutionMarker) THEN TrimSpace(spans[k])
         ELSE cur)

realResolution(page) == realResolutionFrom(page.spans, 1, "")

\* The stream built from one segment that has a file.
StreamOfSource(src, realRes) ==
  LET label == IF src.label # "" THEN src.label ELSE "Unknown"
      name  == "Prehraj.to " \o label
  IN [Name  |-> IF realRes # "" THEN name \o " (Source: " \o realRes \o ")"
                ELSE name,
      Title |-> label,
      URL   |-> src.file]

RECURSIVE StreamsOfSources(_, _, _)
StreamsOfSources(sources, k, realRes) ==
  IF k > Len(sources) THEN <<>>
  ELSE (IF sources[k].file # "" THEN <<StreamOfSource(sources[k], realRes)>>
        ELSE <<>>)
         \o StreamsOfSources(sources, k + 1, realRes)

\* an extraction that returns what it found, without the test for none
extractWithoutEmptyTest(page) ==
  IF ~page.ok THEN [err |-> TRUE, streams |-> <<>>]
  ELSE [err |-> FALSE,
        streams |-> StreamsOfSources(page.sources, 1, realResolution(page))]

\* [err, streams]: err is TRUE for a failed fetch and for a page without
\* any source ("no sources found in script").
extractPrehrajStreams(page) ==
  IF ~page.ok THEN [err |-> TRUE, streams |-> <<>>]
  ELSE LET streams == StreamsOfSources(page.sources, 1, realResolution(page))
       IN IF Len(streams) = 0 THEN [err |-> TRUE, streams |-> <<>>]
          ELSE [err |-> FALSE, streams |-> streams]

(***************************************************************************)
(* handleStream, the body of the extraction goroutine under streamMu.      *)
(***************************************************************************)

Bolt   == "<bolt>"
Folder == "<folder>"
Disk   == "<disk>"
Bullet == "<bullet>"
Clock  == "<clock>"
Gear   == "<gear>"

\* sourceRes: the text after the first "Source:" of the name, trimmed,
\* with one trailing ")" removed.
sourceResOf(name) ==
  IF Contains(name, "Source:")
  THEN LET parts == Split(name, "Source:") IN
         IF Len(parts) > 1 THEN TrimSuffix(TrimSpace(parts[2]), ")") ELSE ""
  ELSE ""

\* the hint shown as written on the details page
displaySourceRaw(sourceRes) == sourceRes

displaySource(sourceRes) ==
  IF Contains(sourceRes, "3840") \/ Contains(sourceRes, "2160") THEN "4K"
  ELSE IF Contains(sourceRes, "1920") \/ Contains(sourceRes, "1080") THEN "1080p"
  ELSE sourceRes

description(res, sourceRes) ==
  LET base == Folder \o " " \o res.Title \o "\n" \o Disk \o " " \o res.Size
                \o " " \o Bullet \o " " \o Clock \o " " \o res.Duration
  IN IF sourceRes # ""
     THEN base \o "\n" \o Gear \o " Source: " \o displaySource(sourceRes)
     ELSE base

\* a stream that carries the lines of no candidate
MergedStreamDetached(s, res) ==
  [Name  |-> "Prehraj.to " \o Bolt \o " " \o s.Title,
   Title |-> description([Title |-> "", Size |-> "", Duration |-> ""],
                         sourceResOf(s.Name)),
   URL   |-> s.URL]

\* One iteration of the loop over extracted: the stream as appended.
MergedStream(s, res) ==
  [Name  |-> "Prehraj.to " \o Bolt \o " " \o s.Title,
   Title |-> description(res, sourceResOf(s.Name)),
   URL   |-> s.URL]

MergedStreams(extracted, res) ==
  [k \in 1..Len(extracted) |-> MergedStream(extracted[k], res)]

\* the loop under streamMu when err == nil && len(extracted) > 0
AccumulateStreams(acc, ex, res) ==
  IF ~ex.err /\ Len(ex.streams) > 0 THEN acc \o MergedStreams(ex.streams, res)
  ELSE acc

(***************************************************************************)
(* handleStream, ranking: the regular expressions, getRes, getStreamRes,   *)
(* getSize and the comparator of sort.Slice.                               *)
(***************************************************************************)

\* `Source:\s*<word>` (reSourceRes4K, reSourceRes1080): MatchString.
MatchSourceWord(title, word) ==
  \E i \in OccurrencesFrom(title, "Source:", 1) :
    HasPrefixAt(title, SkipSpace(title, i + Len("Source:")), word)

\* The positions k of an "x" that `Source:.*x\s*(\d+)` can use when the
\* match starts at i: no line break between, digits after optional space.
RawXPositions(title, i) ==
  {k \in (i + Len("Source:"))..Len(title) :
     /\ CharAt(title, k) = "x"
     /\ ~Contains(SubSeq(title, i + Len("Source:"), k - 1), "\n")
     /\ DigitsAt(title, SkipSpace(title, k + 1)) # ""}

\* reSourceResRaw.FindStringSubmatch: the capture of the leftmost match,
\* the greedy ".*" taking the last usable "x"; "" when nothing matches.
SourceResRawCapture(title) ==
  LET starts == {i \in OccurrencesFrom(title, "Source:", 1) :
                   RawXPositions(title, i) # {}}
  IN IF starts = {} THEN ""
     ELSE LET k == SetMax(RawXPositions(title, SetMin(starts)))
          IN DigitsAt(title, SkipSpace(title, k + 1))

getRes(name, title) ==
  IF MatchSourceWord(title, "4K") THEN 2160
  ELSE IF MatchSourceWord(title, "1080p") THEN 1080
  ELSE LET m == SourceResRawCapture(title) IN
         IF m # "" THEN DigitsVal(m) ELSE 0

\* `<bolt>\s+(\d{3,4})p` tried at the bolt at position i: the capture, or
\* "" when it does not match there.
StreamResAt(name, i) ==
  LET Capture(d, run) ==
        IF Len(run) >= 4 /\ CharAt(name, d + 4) = "p" THEN SubSeq(run, 1, 4)
        ELSE IF Len(run) >= 3 /\ CharAt(name, d + 3) = "p" THEN SubSeq(run, 1, 3)
        ELSE ""
      After(j, d) == IF d = j THEN "" ELSE Capture(d, DigitsAt(name, d))
      From(j) == After(j, SkipSpace(name, j))
  IN From(i + Len(Bolt))

getStreamRes(name) ==
  LET hits == {i \in OccurrencesFrom(name, Bolt, 1) : StreamResAt(name, i) # ""}
  IN IF hits = {} THEN 0 ELSE DigitsVal(StreamResAt(name, SetMin(hits)))

\* `<disk>\s*(\d+(?:\.\d+)?)\s*(GB|MB|kB)` tried at the disk at position i:
\* [ok, int, frac, unit].
SizeAt(title, i) ==
  LET Match(int, frac, unit) ==
        [ok   |-> int # "" /\ unit \in {"GB", "MB", "kB"},
         int  |-> int, frac |-> frac, unit |-> unit]
      Unit(int, frac, u) ==
        Match(int, frac, IF u + 1 <= Len(title) THEN SubSeq(title, u, u + 1) ELSE "")
      Frac(int, e, frac) ==
        Unit(int, frac, SkipSpace(title, IF frac # "" THEN e + 1 + Len(frac) ELSE e))
      Whole(int, e) ==
        Frac(int, e, IF CharAt(title, e) = "." THEN DigitsAt(title, e + 1) ELSE "")
      At(d, int) == Whole(int, d + Len(int))
      From(d) == At(d, DigitsAt(title, d))
  IN From(SkipSpace(title, i + Len(Disk)))

\* The digits ds[lo..hi] (most significant first) times the small number
\* n, plus carry: the long multiplication.  The result is the carry out of
\* the first place followed by the hi - lo + 1 digits of the places; the
\* right half is multiplied first and hands its carry to the left half,
\* which stays as it is when it is multiplied by 1 and nothing is carried.
RECURSIVE TimesRange(_, _, _, _, _)
TimesRange(ds, lo, hi, n, carry) ==
  LET One(v) == <<v \div 10, v % 10>>
      Join(left, right) == left \o Tail(right)
      Left(mid, right) ==
        IF right[1] = 0 /\ n = 1 THEN <<0>> \o SubSeq(ds, lo, mid) \o Tail(right)
        ELSE Join(TimesRange(ds, lo, mid, n, right[1]), right)
      Halves(mid) == Left(mid, TimesRange(ds, mid + 1, hi, n, carry))
  IN IF lo = hi THEN One(ds[lo] * n + carry)
     ELSE Halves((lo + hi) \div 2)

\* the decimal digits of the natural number n, most significant first
RECURSIVE NatDigits(_)
NatDigits(n) == IF n < 10 THEN <<n>> ELSE Append(NatDigits(n \div 10), n % 10)

\* the digits ds without the zeros in front
Stripped(ds) ==
  LET From(first) == SubSeq(ds, first, Len(ds))
  IN From(SetMin({Len(ds) + 1} \cup {k \in 1..Len(ds) : ds[k] # 0}))

\* a < b for two numbers written in digits without zeros in front
DigitsLess(a, b) ==
  \/ Len(a) < Len(b)
  \/ /\ Len(a) = Len(b)
     /\ \E k \in 1..Len(a) : a[k] < b[k] /\ \A q \in 1..(k - 1) : a[q] = b[q]

\* the digits of ds times n plus carry, for n up to 2^26, carry below n
\* and ds not empty
TimesSmall(ds, n, carry) ==
  LET Whole(r) == Stripped(NatDigits(r[1]) \o Tail(r))
  IN Whole(TimesRange(ds, 1, Len(ds), n, carry))

\* 2^52 and 2^53 in digits: a float64 has a significand of 53 bits
TwoTo52 == <<4, 5, 0, 3, 5, 9, 9, 6, 2, 7, 3, 7, 0, 4, 9, 6>>
TwoTo53 == <<9, 0, 0, 7, 1, 9, 9, 2, 5, 4, 7, 4, 0, 9, 9, 2>>

\* A float64 that is not negative: [mant, exp] is the number mant * 2^exp,
\* mant in digits with 2^52 <= mant < 2^53; zero is <<>> * 2^0.  Two
\* floats are equal exactly when their records are.
Float64Zero == [mant |-> <<>>, exp |-> 0]

\* The float64 nearest to ds / 10^scale * 2^exp, ties to the even
\* significand, for digits ds that start with no zero.  The number is
\* doubled (ds times a power of 2) or halved (ds times a power of 5, one
\* more decimal for each) until its integer part has 53 bits; what is left
\* after the decimal point decides the rounding.
RECURSIVE Float64From(_, _, _)
Float64From(ds, scale, exp) ==
  LET Rounded(m) ==
        IF m = TwoTo53 THEN [mant |-> TwoTo52, exp |-> exp + 1]
        ELSE [mant |-> m, exp |-> exp]
      Up(int, frac) ==
        /\ frac # <<>>
        /\ \/ frac[1] > 5
           \/ /\ frac[1] = 5
              /\ \/ \E q \in 2..Len(frac) : frac[q] # 0
                 \/ int[Len(int)] % 2 = 1
      Round(int, frac) ==
        Rounded(IF Up(int, frac)
                THEN TimesSmall(int, 1, 1)
                ELSE int)
      Halved(c) == Float64From(TimesSmall(ds, 5^c, 0), scale + c, exp + c)
      Doubled(c) == Float64From(TimesSmall(ds, 2^c, 0), scale, exp - c)
      Min(x, y) == IF x < y THEN x ELSE y
      Scaled(l, int) ==
        IF l > 16 \/ (l = 16 /\ ~DigitsLess(int, TwoTo53))
        THEN Halved(IF l >= 19 THEN Min(11, 3 * (l - 1) - 53) ELSE 1)
        ELSE IF l = 16 /\ DigitsLess(int, TwoTo52) THEN Doubled(1)
        ELSE IF l < 16
        THEN Doubled(Min(26, 53 - ((10 * (IF l > 0 THEN l ELSE 0) + 2) \div 3)))
        ELSE Round(int, SubSeq(ds, l + 1, Len(ds)))
      Whole(l) == Scaled(l, IF l > 0 THEN SubSeq(ds, 1, l) ELSE <<>>)
  IN Whole(Len(ds) - scale)

\* strconv.ParseFloat(s, 64) of a number written as int, or int.frac, in
\* decimal digits: the nearest float64.  (For a number of fewer than 300
\* digits, which is far from the largest and the smallest float64.)
ParseFloat(int, frac) ==
  LET Number ==
        [k \in 1..(Len(int) + Len(frac)) |->
           IF k <= Len(int) THEN DigitVal(CharAt(int, k))
           ELSE DigitVal(CharAt(frac, k - Len(int)))]
      Of(ds) == IF ds = <<>> THEN Float64Zero ELSE Float64From(ds, Len(frac), 0)
  IN Of(Stripped(Number))

\* x * 2^k in float64: exact, the significand stays
TimesTwoTo(x, k) ==
  IF x = Float64Zero THEN x ELSE [x EXCEPT !.exp = @ + k]

\* x > y for two float64
Float64Greater(x, y) ==
  /\ x # Float64Zero
  /\ \/ y = Float64Zero
     \/ x.exp > y.exp
     \/ x.exp = y.exp /\ DigitsLess(y.mant, x.mant)

\* The size in MB as the float64 of the source: the number parsed, times
\* 1024 for GB, divided by 1024 for kB, 0 without a match.
getSize(title) ==
  LET Value(m) ==
        CASE m.unit = "GB" -> TimesTwoTo(ParseFloat(m.int, m.frac), 10)
          [] m.unit = "MB" -> ParseFloat(m.int, m.frac)
          [] m.unit = "kB" -> TimesTwoTo(ParseFloat(m.int, m.frac), -10)
      First(hits) ==
        IF hits = {} THEN Float64Zero
        ELSE Value(SizeAt(title, SetMin(hits)))
  IN First({i \in OccurrencesFrom(title, Disk, 1) : SizeAt(title, i).ok})

\* a comparator that puts the size before the resolutions
lessSizeFirst(si, sj, metaYear) ==
  LET Compare(sizeI, sizeJ, srcResI, srcResJ) ==
        IF sizeI # sizeJ THEN Float64Greater(sizeI, sizeJ)
        ELSE srcResI > srcResJ
  IN Compare(getSize(si.Title), getSize(sj.Title),
             getRes(si.Name, si.Title), getRes(sj.Name, sj.Title))

\* The comparator: source resolution, stream resolution, size, year.
less(si, sj, metaYear) ==
  LET Compare(srcResI, srcResJ, strmResI, strmResJ, sizeI, sizeJ, hasYearI, hasYearJ) ==
        IF srcResI # srcResJ THEN srcResI > srcResJ
        ELSE IF strmResI # strmResJ THEN strmResI > strmResJ
        ELSE IF sizeI # sizeJ THEN Float64Greater(sizeI, sizeJ)
        ELSE IF hasYearI # hasYearJ THEN hasYearI
        ELSE FALSE
  IN Compare(getRes(si.Name, si.Title), getRes(sj.Name, sj.Title),
             getStreamRes(si.Name), getStreamRes(sj.Name),
             getSize(si.Title), getSize(sj.Title),
             Contains(si.Title, metaYear), Contains(sj.Title, metaYear))

(***************************************************************************)
(* sort.Slice(streams, less), as the Go runtime sorts: pdqsort_func.       *)
(* Positions are those of the source plus one (sequences are 1-based); a   *)
(* range a..b holds the elements data[a], ..., data[b], so the source's    *)
(* half-open [a, b) is the model's (a + 1)..b.  The parameter lt is the    *)
(* comparator: lt[s][t] is data.Less for the elements s and t.             *)
(***************************************************************************)

maxInsertion == 12

Swap(data, i, j) == [data EXCEPT ![i] = data[j], ![j] = data[i]]

\* The inner loop of insertion sort: the element at j is swapped towards a
\* until the test fails, so it lands at the rightmost position p where
\* it is not less than its left neighbour and the elements between move
\* one place to the right.
SinkLeft(data, a, j, lt) ==
  LET Landed(p) ==
        [k \in 1..Len(data) |->
           IF k = p THEN data[j]
           ELSE IF k > p /\ k <= j THEN data[k - 1]
           ELSE data[k]]
  IN Landed(SetMax({a} \cup {q \in (a + 1)..j : ~lt[data[j]][data[q - 1]]}))

\* The outer loop of insertion sort; the element at i stays where the
\* first test of the inner loop fails.
RECURSIVE insertionSortFrom(_, _, _, _, _)
insertionSortFrom(data, a, b, i, lt) ==
  IF i > b THEN data
  ELSE IF lt[data[i]][data[i - 1]]
       THEN insertionSortFrom(SinkLeft(data, a, i, lt), a, b, i + 1, lt)
       ELSE insertionSortFrom(data, a, b, i + 1, lt)

\* insertionSort_func on the range a..b
insertionSort(data, a, b, lt) == insertionSortFrom(data, a, b, a + 1, lt)

\* siftDown_func: lo and hi are the offsets of the source, first the
\* position of the first element of the heap.
RECURSIVE siftDown(_, _, _, _, _)
siftDown(data, lo, hi, first, lt) ==
  LET Sift(child) ==
        IF ~lt[data[first + lo]][data[first + child]] THEN data
        ELSE siftDown(Swap(data, first + lo, first + child), child, hi, first, lt)
      Pick(child) ==
        Sift(IF child + 1 < hi
                  /\ lt[data[first + child]][data[first + child + 1]]
             THEN child + 1 ELSE child)
  IN IF 2 * lo + 1 >= hi THEN data ELSE Pick(2 * lo + 1)

\* The two loops of heapSort_func, i counting down to 0: the heap is built
\* (build), then the greatest element is popped to the end of the range.
RECURSIVE heapSortFrom(_, _, _, _, _, _)
heapSortFrom(data, build, i, hi, first, lt) ==
  IF i < 0
  THEN (IF build THEN heapSortFrom(data, FALSE, hi - 1, hi, first, lt) ELSE data)
  ELSE IF build
  THEN heapSortFrom(siftDown(data, i, hi, first, lt), TRUE, i - 1, hi, first, lt)
  ELSE heapSortFrom(siftDown(Swap(data, first, first + i), 0, i, first, lt),
                    FALSE, i - 1, hi, first, lt)

\* heapSort_func on the range a..b
heapSort(data, a, b, lt) ==
  heapSortFrom(data, TRUE, (b - a) \div 2, b - a + 1, a, lt)

\* order2_func: the positions a and b ordered by their elements, swaps
\* counted: [a, b, swaps].
order2(data, a, b, swaps, lt) ==
  IF lt[data[b]][data[a]]
  THEN [a |-> b, b |-> a, swaps |-> swaps + 1]
  ELSE [a |-> a, b |-> b, swaps |-> swaps]

\* median_func over the positions a, b, c (three order2_func calls), swaps
\* being the count so far: [pos, swaps].
median(data, a, b, c, swaps, lt) ==
  LET Result(o) == [pos |-> o.b, swaps |-> o.swaps]
      Third(a1, o) == Result(order2(data, a1, o.a, o.swaps, lt))
      Second(o) == Third(o.a, order2(data, o.b, c, o.swaps, lt))
  IN Second(order2(data, a, b, swaps, lt))

\* choosePivot_func: a static pivot below 8 elements, the median of three
\* below shortestNinther = 50, the Tukey ninther (medianAdjacent_func at
\* each of the three positions) from there on: [pos, increasing,
\* decreasing], the hints of zero swaps and of maxSwaps = 12 swaps.
choosePivot(data, a, b, lt) ==
  LET Hint(m) ==
        [pos |-> m.pos, increasing |-> m.swaps = 0, decreasing |-> m.swaps = 12]
      Adjacent(p, swaps) == median(data, p - 1, p, p + 1, swaps, lt)
      Last(i, j, k) == Hint(median(data, i.pos, j.pos, k.pos, k.swaps, lt))
      AtK(i, j, k) == Last(i, j, Adjacent(k, j.swaps))
      AtJ(i, j, k) == AtK(i, Adjacent(j, i.swaps), k)
      Of(l, i, j, k) ==
        IF l < 8 THEN [pos |-> j, increasing |-> TRUE, decreasing |-> FALSE]
        ELSE IF l >= 50 THEN AtJ(Adjacent(i, 0), j, k)
        ELSE Hint(median(data, i, j, k, 0, lt))
      Quarters(l) ==
        Of(l, a + (l \div 4), a + (l \div 4) * 2, a + (l \div 4) * 3)
  IN Quarters(b - a + 1)

\* reverseRange_func
reverseRange(data, a, b) ==
  [k \in 1..Len(data) |-> IF a <= k /\ k <= b THEN data[a + b - k] ELSE data[k]]

\* "Shift the greater one to the right": the element at i is swapped
\* towards b past every element less than it, so it lands before the first
\* element from i + 1 on that is not less than it.
ShiftRight(data, i, b, lt) ==
  LET Landed(p) ==
        [k \in 1..Len(data) |->
           IF k = p THEN data[i]
           ELSE IF k >= i /\ k < p THEN data[k + 1]
           ELSE data[k]]
  IN Landed(SetMin({b} \cup {q - 1 : q \in {r \in (i + 1)..b :
                                              ~lt[data[r]][data[i]]}}))

\* The loop of partialInsertionSort_func from its round j (of maxSteps = 5)
\* with the scan at position i: [data, sorted].  A range shorter than
\* shortestShifting = 50 is not modified.  The shift to the left runs down
\* to the second element of the slice, as in the source.
RECURSIVE partialInsertionSortFrom(_, _, _, _, _, _)
partialInsertionSortFrom(data, a, b, i, j, lt) ==
  LET Right(d, p) == IF b - p + 1 >= 2 THEN ShiftRight(d, p, b, lt) ELSE d
      Left(d, p) == IF p - a >= 2 THEN SinkLeft(d, 1, p - 1, lt) ELSE d
      At(p) ==
        IF p = b + 1 THEN [data |-> data, sorted |-> TRUE]
        ELSE IF b - a + 1 < 50 THEN [data |-> data, sorted |-> FALSE]
        ELSE partialInsertionSortFrom(Right(Left(Swap(data, p, p - 1), p), p),
                                      a, b, p, j + 1, lt)
  IN IF j = 5 THEN [data |-> data, sorted |-> FALSE]
     ELSE At(SetMin({b + 1} \cup {q \in i..b : lt[data[q]][data[q - 1]]}))

\* partialInsertionSort_func on the range a..b
partialInsertionSort(data, a, b, lt) ==
  partialInsertionSortFrom(data, a, b, a + 1, 0, lt)

\* for i <= j && less(data[i], data[a]) { i++ }: the first position from
\* i that fails the test.
ScanUp(data, a, i, j, lt) ==
  SetMin({j + 1} \cup {q \in i..j : ~lt[data[q]][data[a]]})

\* for i <= j && !less(data[j], data[a]) { j-- }: the last position down
\* to i that fails the test.
ScanDown(data, a, i, j, lt) ==
  SetMax({i - 1} \cup {q \in i..j : lt[data[q]][data[a]]})

\* The loop of partition_func with the pivot at a: [data, mid].
RECURSIVE PartitionLoop(_, _, _, _, _)
PartitionLoop(data, a, i, j, lt) ==
  LET Step(i2, j2) ==
        IF i2 > j2 THEN [data |-> Swap(data, j2, a), mid |-> j2]
        ELSE PartitionLoop(Swap(data, i2, j2), a, i2 + 1, j2 - 1, lt)
      Down(i2) == Step(i2, ScanDown(data, a, i2, j, lt))
  IN Down(ScanUp(data, a, i, j, lt))

\* partition_func: [data, mid, already], already being the result
\* alreadyPartitioned (the first two scans met).
partition(data, a, b, pivot, lt) ==
  LET Result(p, already) ==
        [data |-> p.data, mid |-> p.mid, already |-> already]
      First(d, i) ==
        Result(PartitionLoop(d, a, a + 1, b, lt), i > ScanDown(d, a, i, b, lt))
      Swapped(d) == First(d, ScanUp(d, a, a + 1, b, lt))
  IN Swapped(Swap(data, a, pivot))

\* The loop of partitionEqual_func with the pivot at a: [data, mid], mid
\* being the first position of the elements greater than the pivot.
RECURSIVE PartitionEqualLoop(_, _, _, _, _)
PartitionEqualLoop(data, a, i, j, lt) ==
  LET Step(i2, j2) ==
        IF i2 > j2 THEN [data |-> data, mid |-> i2]
        ELSE PartitionEqualLoop(Swap(data, i2, j2), a, i2 + 1, j2 - 1, lt)
      Down(i2) ==
        Step(i2, SetMax({i2 - 1} \cup {q \in i2..j : ~lt[data[a]][data[q]]}))
  IN Down(SetMin({j + 1} \cup {q \in i..j : lt[data[a]][data[q]]}))

\* partitionEqual_func
partitionEqual(data, a, b, pivot, lt) ==
  PartitionEqualLoop(Swap(data, a, pivot), a, a + 1, b, lt)

\* bits.Len(uint(n)): the number of bits of n
BitsLen(n) == SetMin({s \in 0..30 : 2 ^ s > n})

\* xorshift.Next on a 64-bit word, the word being the function from the
\* bit positions 0..63 to BOOLEAN: r ^= r << 13; r ^= r >> 7; r ^= r << 17.
xorshiftNext(r) ==
  LET Shl(w, n) == [i \in 0..63 |-> i >= n /\ w[i - n]]
      Shr(w, n) == [i \in 0..63 |-> i + n <= 63 /\ w[i + n]]
      Xor(u, v) == [i \in 0..63 |-> u[i] # v[i]]
      Third(w) == Xor(w, Shl(w, 17))
      Second(w) == Third(Xor(w, Shr(w, 7)))
  IN Second(Xor(r, Shl(r, 13)))

\* breakPatterns_func: three elements around the middle are swapped with
\* elements at positions drawn from xorshift seeded with the length.
breakPatterns(data, a, b) ==
  LET length == b - a + 1
      shift == BitsLen(length)
      Seed == [i \in 0..63 |-> i < shift /\ (length \div (2 ^ i)) % 2 = 1]
      \* uint(random) & (modulus - 1), less length when not below it
      Other(w) ==
        LET v == CHOOSE n \in 0..(2 ^ shift - 1) :
                   \A i \in 0..(shift - 1) : ((n \div (2 ^ i)) % 2 = 1) = w[i]
        IN IF v >= length THEN v - length ELSE v
      \* the middle of the three positions swapped
      idx == a + (length \div 4) * 2
      Three(d, r1, r2, r3) ==
        Swap(Swap(Swap(d, idx - 1, a + Other(r1)), idx, a + Other(r2)),
             idx + 1, a + Other(r3))
      Two(d, r1, r2) == Three(d, r1, r2, xorshiftNext(r2))
      One(d, r1) == Two(d, r1, xorshiftNext(r1))
  IN IF length >= 8 THEN One(data, xorshiftNext(Seed)) ELSE data

\* The loop of pdqsort_func on the range a..b, entered with the values of
\* limit, wasBalanced and wasPartitioned; the recursive call on the
\* shorter side, the loop going on with the longer one.
RECURSIVE pdqsortFrom(_, _, _, _, _, _, _)
pdqsortFrom(data, a, b, limit, wasBalanced, wasPartitioned, lt) ==
  LET lim == IF wasBalanced THEN limit ELSE limit - 1
      threshold == (b - a + 1) \div 8
      Sides(p) ==
        IF p.mid - a < b - p.mid + 1
        THEN pdqsortFrom(pdqsortFrom(p.data, a, p.mid - 1, lim, TRUE, TRUE, lt),
                         p.mid + 1, b, lim,
                         p.mid - a >= threshold, p.already, lt)
        ELSE pdqsortFrom(pdqsortFrom(p.data, p.mid + 1, b, lim, TRUE, TRUE, lt),
                         a, p.mid - 1, lim,
                         b - p.mid + 1 >= threshold, p.already, lt)
      Greater(e) ==
        pdqsortFrom(e.data, e.mid, b, lim, wasBalanced, wasPartitioned, lt)
      Parted(d, pivot) ==
        IF a > 1 /\ ~lt[d[a - 1]][d[pivot]]
        THEN Greater(partitionEqual(d, a, b, pivot, lt))
        ELSE Sides(partition(d, a, b, pivot, lt))
      Tried(s, pivot) == IF s.sorted THEN s.data ELSE Parted(s.data, pivot)
      Hinted(d, pivot, increasing) ==
        Tried(IF wasBalanced /\ wasPartitioned /\ increasing
              THEN partialInsertionSort(d, a, b, lt)
              ELSE [data |-> d, sorted |-> FALSE],
              pivot)
      Chosen(d, pv) ==
        IF pv.decreasing
        THEN Hinted(reverseRange(d, a, b), b - (pv.pos - a), TRUE)
        ELSE Hinted(d, pv.pos, pv.increasing)
      Broken(d) == Chosen(d, choosePivot(d, a, b, lt))
  IN IF b - a + 1 <= maxInsertion THEN insertionSort(data, a, b, lt)
     ELSE IF limit = 0 THEN heapSort(data, a, b, lt)
     ELSE Broken(IF wasBalanced THEN data ELSE breakPatterns(data, a, b))

\* pdqsort_func on the range a..b
pdqsort(data, a, b, limit, lt) == pdqsortFrom(data, a, b, limit, TRUE, TRUE, lt)

\* The comparator handed to sort.Slice, as a value: the function of two
\* streams of the slice that pdqsort_func calls through data.Less.
lessOf(streams, metaYear) ==
  [si \in SeqRange(streams) |->
     [sj \in SeqRange(streams) |-> less(si, sj, metaYear)]]

\* sort.Slice: limit := bits.Len(uint(length))
SortSlice(streams, metaYear) ==
  IF Len(streams) = 0 THEN streams
  ELSE pdqsort(streams, 1, Len(streams), BitsLen(Len(streams)),
               lessOf(streams, metaYear))

(***************************************************************************)
(* filterPrehrajResults and the deduplication by URL.                      *)
(***************************************************************************)

IsWordChar(c) ==
  /\ Len(c) = 1
  /\ \E k \in 1..63 :
       SubSeq("abcdefghijklmnopqrstuvwxyzABCDEFGHIJKLMNOPQRSTUVWXYZ0123456789_", k, k) = c

\* `\b(19|20)\d{2}\b` matches at position i.  The word boundary of RE2 is
\* that of ASCII: an accented letter is no word character, so the base
\* letter that ends its digraph does not count as one before the year (the
\* digraph's first character, and a pictogram's, is none either way).
YearAt(title, i) ==
  /\ i + 3 <= Len(title)
  /\ SubSeq(title, i, i + 1) \in {"19", "20"}
  /\ IsDigit(CharAt(title, i + 2)) /\ IsDigit(CharAt(title, i + 3))
  /\ \/ ~IsWordChar(CharAt(title, i - 1))
     \/ CharAt(title, i - 2) \in {"^", "~"}
  /\ ~IsWordChar(CharAt(title, i + 4))

\* yearReg.FindAllString(title, -1), as the set of the years found
detectedYears(title) ==
  {DigitsVal(SubSeq(title, i, i + 3)) : i \in {j \in 1..Len(title) : YearAt(title, j)}}

\* a year check that wants every detected year to be the target year
YearCheckEveryYear(res, targetYear) ==
  targetYear > 0 => \A y \in detectedYears(res.Title) : y = targetYear

\* The year check of the loop body: TRUE when res is kept.
YearCheck(res, targetYear) ==
  targetYear > 0 =>
    (detectedYears(res.Title) # {} => targetYear \in detectedYears(res.Title))

\* a relevance check that skips a result whose title contains none of
\* the names
filterSkippingUnnamed(results, metaYear, metaNames) ==
  LET targetYear == IF metaYear # "" THEN Atoi(metaYear) ELSE 0
  IN SelectSeq(results,
       LAMBDA res : /\ YearCheck(res, targetYear)
                    /\ \E n \in 1..Len(metaNames) :
                         Contains(res.Title, metaNames[n]))

\* metaNames is read by the relevance check only, which drops nothing.
filterPrehrajResults(results, metaYear, metaNames) ==
  LET targetYear == IF metaYear # "" THEN Atoi(metaYear) ELSE 0
  IN SelectSeq(results, LAMBDA res : YearCheck(res, targetYear))

\* a loop that appends every filtered result, seen before or not
KeepEveryResult(filtered) == filtered

\* The loop over filteredResults: a result is appended when no earlier
\* result has its URL, so the kept results are the first occurrences, in
\* their order.
DedupByURL(filtered) ==
  LET first == {k \in 1..Len(filtered) :
                  \A j \in 1..(k - 1) : filtered[j].URL # filtered[k].URL}
  IN [n \in 1..Cardinality(first) |->
        filtered[CHOOSE k \in first :
                   Cardinality({j \in first : j <= k}) = n]]

metaNamesOf(meta) ==
  <<meta.Name>>
    \o (IF meta.OriginalName # "" /\ meta.OriginalName # meta.Name
        THEN <<meta.OriginalName>> ELSE <<>>)

\* orderedUniqueResults, from allResults
UniqueResults(allRes, meta) ==
  DedupByURL(filterPrehrajResults(allRes, meta.Year, metaNamesOf(meta)))

(***************************************************************************)
(* State.                                                                  *)
(*   qctx, qout, qpc : the query expander run on its own: a title context  *)
(*     (with season and episode), the query list built from it, and        *)
(*     whether it was built.                                               *)
(*   rin, ryear, rmerged, rfrom, rdone, rout, rpc : merge and ranking run  *)
(*     on their own: the candidates to extract (the deduplicated results   *)
(*     up to the limit) with their details pages, the target year, the     *)
(*     stream list as the goroutines append to it (streams before the      *)
(*     sort), for each of its streams the position in rin of the candidate *)
(*     it came from, the candidates whose goroutine has appended, the      *)
(*     list as sort.Slice leaves it, and the position.                     *)
(***************************************************************************)
VARIABLES qctx, qout, qpc, rin, ryear, rmerged, rfrom, rdone, rout, rpc

qvars == <<qctx, qout, qpc>>
rvars == <<rin, ryear, rmerged, rfrom, rdone, rout, rpc>>

\* The filter and the deduplication by URL run on their own: the
\* accumulated results, the title (meta), the output of
\* filterPrehrajResults, the deduplicated list, and the position.
VARIABLES fin, fmeta, fout, funique, fpc

fvars == <<fin, fmeta, fout, funique, fpc>>

\* the state of handleStream, described where its actions are defined
VARIABLES req, hpc, queries, spc, sem, wgSearch, allResults, unique,
          epc, semExtract, wgExtract, streams, response, wire, fetched

hvars == <<req, hpc, queries, spc, sem, wgSearch, allResults, unique,
           epc, semExtract, wgExtract, streams, response, wire, fetched>>

(***************************************************************************)
(* Inputs of the query expander.                                           *)
(***************************************************************************)

QNames ==
  {"", "Up", " Up ", "Wicked", "WALL-E", "a:b", "a_b", "Dune: Part Two", "Am^elie"}

QYears == {"", "2024"}

\* season and episode as taken from the stream id ("" when absent)
QEpisodes ==
  {<<"", "">>, <<"1", "2">>, <<"12", "3">>, <<"1", "">>, <<"", "4">>,
   <<"1", "100">>, <<"2024", "7">>, <<"-1", "5">>, <<"+3", "007">>,
   <<"x", "2">>, <<"1", "2a">>, <<"0", "0">>}

NoCtx == [Name |-> "", OriginalName |-> "", Year |-> "", season |-> "", episode |-> ""]

QIdle == qctx = NoCtx /\ qout = <<>> /\ qpc = "off"

QInit ==
  /\ \E n \in QNames, o \in QNames, y \in QYears, se \in QEpisodes :
       qctx = [Name |-> n, OriginalName |-> o, Year |-> y,
               season |-> se[1], episode |-> se[2]]
  /\ qout = <<>>
  /\ qpc = "in"

\* handleStream from "Generate search queries" to the deduplicated list
Expand ==
  /\ qpc = "in"
  /\ qout' = dedupedQueries(qctx, qctx.season, qctx.episode)
  /\ qpc' = "out"
  /\ UNCHANGED <<qctx, rvars, fvars, hvars>>

(***************************************************************************)
(* Inputs of merge and ranking.                                            *)
(***************************************************************************)

\* limit := 25
ExtractLimit == 25

\* Longest candidate list of which every choice from the pool is ranked.
MaxShort == 3

Cand(title, size, url) ==
  [Title |-> title, Duration |-> "02:40:11", Size |-> size, URL |-> url]

Page(hint, labels, base) ==
  [ok      |-> TRUE,
   spans   |-> IF hint = "" THEN <<>> ELSE <<ResolutionMarker, hint>>,
   sources |-> [k \in 1..Len(labels) |->
                  [file |-> base \o "/" \o NatStr(k) \o ".mp4", label |-> labels[k]]]]

\* Texts of the resolution item: the forms the page uses, forms that name
\* two resolutions, one of two lines, and texts with "Source:" in them.
RankHints ==
  {"", "4K", "1080p", "720p", "3840 x 2160 px", "1920 x 1080 px",
   "1920 x 800 px", "1440 x 1080 px", "2560 x 1440 px", "7680 x 4320 px",
   "1280 x 720 px", " 1280 x 720 px ", "640x480",
   "4K 1080p", "4K 1920 x 1080", "4K UHD", "UHD 4K", "1080p 4K",
   "4K 1280 x 720", "1280 x 720\n640 x 480", "Source: 4K", "HD Source: 640x480"}

RankLabels == {<<"1080p">>, <<"1080p", "720p">>, <<"">>, <<"HD Source: 4K">>}

RankCands ==
  {Cand("Wicked 2024 CZ", "5.2 GB", "https://prehraj.to/a"),
   Cand("Wicked", "700 MB", "https://prehraj.to/b"),
   Cand("Wicked Source: 4K", "900 kB", "https://prehraj.to/c"),
   Cand("Wicked Source: 640x480", "700 MB", "https://prehraj.to/h")}

\* a candidate with its details page, the files under the candidate's name
Origin(res, hint, labels) ==
  [res |-> res,
   page |-> Page(hint, labels,
                 "https://cdn/" \o SubSeq(res.URL, Len("https://prehraj.to/") + 1,
                                          Len(res.URL)))]

\* every candidate with every page, alone
Singles ==
  {<<Origin(c, h, l)>> : c \in RankCands, h \in RankHints, l \in RankLabels}

\* candidates whose streams tie on some or all ranking keys
OriginPool ==
  << Origin(Cand("Wicked 2024 CZ", "5.2 GB", "https://prehraj.to/a"),
            "1920 x 1080 px", <<"1080p">>),
     Origin(Cand("Wicked 2024", "5324.8 MB", "https://prehraj.to/d"),
            "1920 x 800 px", <<"1080p">>),
     Origin(Cand("Wicked CZ", "5.2 GB", "https://prehraj.to/e"),
            "1080p", <<"1080p">>),
     Origin(Cand("Wicked", "700 MB", "https://prehraj.to/b"),
            "3840 x 2160 px", <<"720p">>),
     Origin(Cand("Wicked", "700 MB", "https://prehraj.to/f"),
            "", <<"1080p", "720p">>),
     Origin(Cand("Wicked", "900 kB", "https://prehraj.to/g"),
            "1280 x 720 px", <<"">>) >>

\* every choice of 2..MaxShort different candidates of the pool, in the
\* order of the pool (their goroutines append in any order)
Shorts ==
  UNION {{[i \in 1..n |-> OriginPool[q[i]]] :
            q \in {p \in [1..n -> 1..Len(OriginPool)] :
                     \A i \in 1..(n - 1) : p[i] < p[i + 1]}} : n \in 2..MaxShort}

\* maxInsertion + 1 candidates with one stream each, all of one size but
\* the candidate at position p
LongList(p, big) ==
  [i \in 1..(maxInsertion + 1) |->
     Origin(Cand("Wicked",
                 IF (i = p) = big THEN "5.2 GB" ELSE "700 MB",
                 "https://prehraj.to/v" \o NatStr(i)),
            "", <<"1080p">>)]

Longs == {LongList(p, big) : p \in 1..(maxInsertion + 1), big \in BOOLEAN}

\* Stream lists longer than maxInsertion, written as the keys of their
\* streams, one digit for each stream: lists of 15 with one large key near
\* the end, a list of 20 that pdqsort_func partitions unevenly, and lists
\* of 50, whose pivot is the ninther, among them one of ascending runs and
\* one that choosePivot finds to be descending.
SizePatterns ==
  {"000000000000009", "000000000000090", "000000000000900",
   "01010110111000000101",
   "99999009090990099999009900999990990090090099900999",
   "09999900000000909900999009999909900009009000009000",
   "99999888887777766666555554444433333222221111100009",
   "52097257737017826263466345768273977289300692825263"}

\* The candidates that give the streams of a pattern. Up to ExtractLimit
\* digits: one candidate with one stream for each digit d, of size
\* (d + 1) * 100 MB. More digits: one candidate with two streams for each
\* two digits, all of one size, the label of a stream (d + 1) * 100 "p".
PatternList(pat) ==
  IF Len(pat) <= ExtractLimit
  THEN [i \in 1..Len(pat) |->
          Origin(Cand("Wicked", NatStr(DigitVal(CharAt(pat, i)) + 1) \o "00 MB",
                      "https://prehraj.to/v" \o NatStr(i)),
                 "", <<"1080p">>)]
  ELSE [i \in 1..(Len(pat) \div 2) |->
          Origin(Cand("Wicked", "700 MB", "https://prehraj.to/v" \o NatStr(i)),
                 "",
                 [n \in 1..2 |->
                    NatStr(DigitVal(CharAt(pat, 2 * (i - 1) + n)) + 1) \o "00p"])]

Patterned == {PatternList(pat) : pat \in SizePatterns}

\* Sizes written with many digits: two of a pair are different numbers of
\* MB and the same float64.
NearSizes ==
  {<<"8.6480985634542 GB", "8855.6529289771 MB">>,
   <<"9100.4628462677 kB", "8.8871707483083 MB">>,
   <<"1.25927420749333 GB", "1289.49678847317 MB">>}

\* two candidates with one stream each, their sizes a pair of NearSizes
NearList(first, second) ==
  <<Origin(Cand("Wicked", first, "https://prehraj.to/a"), "", <<"1080p">>),
    Origin(Cand("Wicked 2024", second, "https://prehraj.to/b"), "", <<"1080p">>)>>

NearLists ==
  {NearList(p[1], p[2]) : p \in NearSizes} \cup {NearList(p[2], p[1]) : p \in NearSizes}

RIdle ==
  /\ rin = <<>> /\ ryear = "" /\ rmerged = <<>> /\ rfrom = <<>>
  /\ rdone = {} /\ rout = <<>> /\ rpc = "off"

\* The streams appended by the extraction goroutines of the candidates
\* lo..hi of origins, the goroutines appending in the order of the
\* candidates; a failed extraction appends nothing.
RECURSIVE MergeAll(_, _, _)
MergeAll(origins, lo, hi) ==
  IF lo > hi THEN <<>>
  ELSE IF lo = hi
  THEN AccumulateStreams(<<>>, extractPrehrajStreams(origins[lo].page),
                         origins[lo].res)
  ELSE MergeAll(origins, lo, (lo + hi) \div 2)
         \o MergeAll(origins, ((lo + hi) \div 2) + 1, hi)

\* The position in origins of the candidate of each stream of MergeAll.
RECURSIVE MergeFrom(_, _, _)
MergeFrom(origins, lo, hi) ==
  IF lo > hi THEN <<>>
  ELSE IF lo = hi
  THEN [j \in 1..Len(MergeAll(origins, lo, lo)) |-> lo]
  ELSE MergeFrom(origins, lo, (lo + hi) \div 2)
         \o MergeFrom(origins, ((lo + hi) \div 2) + 1, hi)

\* Number of candidates of a long list whose goroutines have not appended
\* yet in the state from which the list is followed.
LateCands == 2

\* The extraction stage of the candidates origins, the goroutines of the
\* first n of them having appended, in the order of the candidates.
AfterAppends(origins, n) ==
  /\ rin = origins
  /\ rmerged = MergeAll(origins, 1, n)
  /\ rfrom = MergeFrom(origins, 1, n)
  /\ rdone = 1..n

\* The extraction stage after the deduplication by URL and the limit: the
\* candidates differ in their URLs and are ExtractLimit at most. Short
\* lists start with no goroutine having appended, long lists with all but
\* LateCands.
RInit ==
  /\ \/ \E o \in Singles \cup Shorts \cup NearLists : AfterAppends(o, 0)
     \/ \E o \in Longs \cup Patterned : AfterAppends(o, Len(o) - LateCands)
  /\ ryear \in QYears
  /\ rout = <<>>
  /\ rpc = "in"

\* The goroutine of candidate i, from the call of extractPrehrajStreams to
\* the unlock: it appends its streams to streams under streamMu. The
\* goroutines append in any order.
AppendExtracted(i) ==
  /\ rpc = "in"
  /\ i \in (1..Len(rin)) \ rdone
  /\ rmerged' = AccumulateStreams(rmerged, extractPrehrajStreams(rin[i].page),
                                  rin[i].res)
  /\ rfrom' = rfrom \o [j \in 1..(Len(rmerged') - Len(rmerged)) |-> i]
  /\ rdone' = rdone \cup {i}
  /\ UNCHANGED <<rin, ryear, rout, rpc, qvars, fvars, hvars>>

\* handleStream from the return of wgExtract.Wait to the response
Rank ==
  /\ rpc = "in"
  /\ rdone = 1..Len(rin)
  /\ rout' = SortSlice(rmerged, ryear)
  /\ rpc' = "out"
  /\ UNCHANGED <<rin, ryear, rmerged, rfrom, rdone, qvars, fvars, hvars>>

RNext == (\E i \in 1..ExtractLimit : AppendExtracted(i)) \/ Rank

(***************************************************************************)
(* Inputs of the filter and the deduplication by URL.                      *)
(***************************************************************************)

\* Longest list of accumulated results.
MaxResults == 3

\* Titles of search hits: with the target year, with another year, with
\* none, with a year glued to a word by an underscore, one that does not
\* contain the name and carries two years, and one with a year right after
\* an accented letter.
FilterTitles ==
  {"Wicked 2024 CZ", "Wicked 2019", "Wicked", "Wicked_2019",
   "Pomsta 2019 2024", "Zl^a2019"}

FilterURLs == {"https://prehraj.to/a", "https://prehraj.to/b"}

FilterCands == {Cand(t, "1.4 GB", u) : t \in FilterTitles, u \in FilterURLs}

\* meta.Year as TMDB gives it: absent, a year, not a number, zero
FilterYears == {"", "2024", "n/a", "0"}

\* meta.OriginalName: absent, or a name that no title contains
FilterOriginalNames == {"", "Zl^a"}

FilterLists == UNION {[1..n -> FilterCands] : n \in 1..MaxResults}

FIdle ==
  /\ fin = <<>> /\ fmeta = [Name |-> "", OriginalName |-> "", Year |-> ""]
  /\ fout = <<>> /\ funique = <<>> /\ fpc = "off"

FInit ==
  /\ fin \in FilterLists
  /\ \E y \in FilterYears, o \in FilterOriginalNames :
       fmeta = [Name |-> "Wicked", OriginalName |-> o, Year |-> y]
  /\ fout = <<>> /\ funique = <<>>
  /\ fpc = "in"

\* handleStream from wgSearch.Wait() to orderedUniqueResults
FilterAndDedup ==
  /\ fpc = "in"
  /\ fout' = filterPrehrajResults(fin, fmeta.Year, metaNamesOf(fmeta))
  /\ funique' = UniqueResults(fin, fmeta)
  /\ fpc' = "out"
  /\ UNCHANGED <<fin, fmeta, qvars, rvars, hvars>>

(***************************************************************************)
(* handleStream as a concurrent program.  Every variable is a function of  *)
(* the request (the net/http server runs one handleStream per request,     *)
(* each in its own goroutine).                                             *)
(*   req     : the request and its collaborators' answers:                 *)
(*             [active, path, metaOK, meta, search], path being the path   *)
(*             of the URL, metaOK and meta what fetchTMDBMeta returns and  *)
(*             search[k] what searchPrehraj returns for the k-th query     *)
(*   hpc     : position of the handler: "idle", "start", "search" (in the  *)
(*             loop that starts the search goroutines, then at             *)
(*             wgSearch.Wait), "extract" (in the loop that starts the      *)
(*             extraction goroutines, then at wgExtract.Wait), "done"      *)
(*   queries : dedupedQueries                                              *)
(*   spc     : position of each search goroutine started so far: "wait"    *)
(*             (before the send on sem), "call" (in searchPrehraj),        *)
(*             "unlocked" (past the append under resMu), "released" (past  *)
(*             the receive from sem), "done" (past wgSearch.Done)          *)
(*   sem, wgSearch : the fill of the channel sem, the counter of wgSearch  *)
(*   allResults, unique : allResults, orderedUniqueResults                 *)
(*   epc, semExtract, wgExtract : the same for the extraction goroutines   *)
(*   streams : the merged stream list                                      *)
(*   response : the streams value handed to the JSON encoder               *)
(*   wire    : the responses written to the client, [status, body], one    *)
(*             per Encode call or call of http.NotFound                    *)
(*   fetched : the bag of the addresses extractPrehrajStreams was called   *)
(*             with                                                        *)
(***************************************************************************)
vars == <<qvars, rvars, fvars, hvars>>

Reqs == {1, 2}

\* sem := make(chan struct{}, 1)
SearchCap == 1

\* semExtract := make(chan struct{}, 5)
ExtractCap == 5

(***************************************************************************)
(* The collaborators: the upstream site.                                   *)
(***************************************************************************)

\* Number of videos on the site.
NumCands == 7

SiteURL(i) == "https://prehraj.to/v" \o NatStr(i)

SiteCand(i) ==
  CASE i = 1 -> Cand("Wicked 2024 CZ", "5.2 GB", SiteURL(i))
    [] i = 2 -> Cand("Wicked 2019", "4.1 GB", SiteURL(i))
    [] i = 3 -> Cand("Wicked 2024 CZ", "5.2 GB", SiteURL(i))
    [] i = 4 -> Cand("Wicked", "700 MB", SiteURL(i))
    [] OTHER -> Cand("Wicked CZ dabing", "1.4 GB", SiteURL(i))

\* The details page of video i: videos 1, 3 and 4 have sources, the page
\* of video 2 and of every odd later one cannot be fetched, the page of
\* every even later one has no source.
SitePage(i) ==
  CASE i = 1 -> Page("1920 x 800 px", <<"1080p", "720p">>, "https://cdn/v1")
    [] i = 2 -> [ok |-> FALSE, spans |-> <<>>, sources |-> <<>>]
    [] i = 3 -> Page("1920 x 1080 px", <<"1080p">>, "https://cdn/v3")
    [] i = 4 -> Page("", <<"">>, "https://cdn/v4")
    [] OTHER -> [ok |-> i % 2 = 0, spans |-> <<>>, sources |-> <<>>]

\* the details page at the address url of a video
SitePageOf(url) ==
  SitePage(DigitsVal(SubSeq(url, Len(SiteURL(0)), Len(url))))

Catalog == [i \in 1..NumCands |-> SiteCand(i)]

\* the first n videos of the site, as one search returns them
Hits(n) == [err |-> FALSE, results |-> [i \in 1..n |-> SiteCand(i)]]

\* What searchPrehraj returns for a query in the runs of few candidates:
\* an error, no hit, the first two videos.
SearchOutcomes ==
  {[err |-> TRUE, results |-> <<>>],
   [err |-> FALSE, results |-> <<>>],
   [err |-> FALSE, results |-> SubSeq(Catalog, 1, 2)]}

Title(name, year) == [Name |-> name, OriginalName |-> "", Year |-> year]

\* parts := strings.Split(r.URL.Path, "/")
PathParts(path) == Split(path, "/")

\* streamID := parts[3], without a trailing ".json"
streamIDOf(path) == TrimSuffix(PathParts(path)[4], ".json")

\* idParts := strings.Split(streamID, ":")
idPartsOf(path) == Split(streamIDOf(path), ":")

\* season = idParts[2] when len(idParts) >= 4
seasonOf(path) ==
  IF Len(idPartsOf(path)) >= 4 THEN idPartsOf(path)[3] ELSE ""

\* episode = idParts[3] when len(idParts) >= 4
episodeOf(path) ==
  IF Len(idPartsOf(path)) >= 4 THEN idPartsOf(path)[4] ELSE ""

\* the request goes past the checks of its path and of its identifier
Routed(path) ==
  /\ Len(PathParts(path)) >= 4
  /\ HasPrefix(streamIDOf(path), "eztmdb:")
  /\ Len(idPartsOf(path)) >= 2

\* the titles of the requests: a film with its year, a series episode
RunTitles ==
  {[path |-> "/stream/movie/eztmdb:402431.json", meta |-> Title("Wicked", "2024")],
   [path |-> "/stream/series/eztmdb:1399:1:2.json", meta |-> Title("Wicked", "")]}

Inactive ==
  [active |-> FALSE, path |-> "", metaOK |-> FALSE, meta |-> Title("", ""),
   search |-> <<>>]

\* a path without an identifier: fewer than four parts
ShortPath == "/stream/movie"

\* a request whose path has no identifier, a request whose identifier is
\* not one of this addon, a request whose metadata lookup fails
EarlyReturns ==
  {[active |-> TRUE, path |-> p, metaOK |-> FALSE, meta |-> Title("", ""),
    search |-> <<>>] :
     p \in {ShortPath, "/stream/movie/tt0111161.json",
            "/stream/movie/eztmdb:0.json"}}

RunInputsOver(outcomes) ==
  EarlyReturns
    \cup UNION {
      {[active |-> TRUE, path |-> t.path, metaOK |-> TRUE, meta |-> t.meta,
        search |-> sr] :
         sr \in [1..Len(dedupedQueries(t.meta, seasonOf(t.path),
                                         episodeOf(t.path))) -> outcomes]}
      : t \in RunTitles}

\* A run of many candidates: the film, whose first query returns the
\* first n videos of the site and whose other queries return the first two
\* again.
LargeRun(n) ==
  [active |-> TRUE, path |-> "/stream/movie/eztmdb:402431.json",
   metaOK |-> TRUE, meta |-> Title("Wicked", "2024"),
   search |-> [k \in 1..Len(dedupedQueries(Title("Wicked", "2024"), "", "")) |->
                 IF k = 1 THEN Hits(n) ELSE Hits(2)]]

\* the runs of few candidates and the run in which a search returns every
\* video of the site
RunInputs == RunInputsOver(SearchOutcomes) \cup {LargeRun(NumCands)}

HIdle ==
  /\ req = [r \in Reqs |-> Inactive]
  /\ hpc = [r \in Reqs |-> "idle"]
  /\ queries = [r \in Reqs |-> <<>>]
  /\ spc = [r \in Reqs |-> <<>>]
  /\ sem = [r \in Reqs |-> 0]
  /\ wgSearch = [r \in Reqs |-> 0]
  /\ allResults = [r \in Reqs |-> <<>>]
  /\ unique = [r \in Reqs |-> <<>>]
  /\ epc = [r \in Reqs |-> <<>>]
  /\ semExtract = [r \in Reqs |-> 0]
  /\ wgExtract = [r \in Reqs |-> 0]
  /\ streams = [r \in Reqs |-> <<>>]
  /\ response = [r \in Reqs |-> <<>>]
  /\ wire = [r \in Reqs |-> <<>>]
  /\ fetched = [r \in Reqs |-> EmptyBag]

\* the state when the requests of inputs arrive
HInitWith(inputs) ==
  /\ req = inputs
  /\ hpc = [r \in Reqs |-> IF inputs[r].active THEN "start" ELSE "idle"]
  /\ queries = [r \in Reqs |-> <<>>]
  /\ spc = [r \in Reqs |-> <<>>]
  /\ sem = [r \in Reqs |-> 0]
  /\ wgSearch = [r \in Reqs |-> 0]
  /\ allResults = [r \in Reqs |-> <<>>]
  /\ unique = [r \in Reqs |-> <<>>]
  /\ epc = [r \in Reqs |-> <<>>]
  /\ semExtract = [r \in Reqs |-> 0]
  /\ wgExtract = [r \in Reqs |-> 0]
  /\ streams = [r \in Reqs |-> <<>>]
  /\ response = [r \in Reqs |-> <<>>]
  /\ wire = [r \in Reqs |-> <<>>]
  /\ fetched = [r \in Reqs |-> EmptyBag]

\* one request
HInit == \E i \in RunInputs : HInitWith([r \in Reqs |-> IF r = 1 THEN i ELSE Inactive])

(***************************************************************************)
(* The handler and its goroutines.                                         *)
(***************************************************************************)

\* a channel made without a buffer: with no receiver waiting the send
\* blocks, whatever the channel holds
SendOnUnbuffered(n, cap) == FALSE

\* a channel whose send never blocks
SendNeverBlocks(n, cap) == TRUE

\* a send on a buffered channel of capacity cap holding n values proceeds
CanSend(n, cap) == n < cap

\* a Wait that does not wait
WaitReturnsAtOnce(counter) == TRUE

\* wg.Wait() returns
WaitReturns(counter) == counter = 0

\* an assignment in place of the append: the earlier results are lost
OverwriteResults(acc, out) ==
  IF ~out.err THEN out.results ELSE acc

\* an error that discards what the other searches found
ClearOnError(acc, out) ==
  IF ~out.err THEN acc \o out.results ELSE <<>>

\* allResults = append(allResults, results...) when err == nil
AccumulateResults(acc, out) ==
  IF ~out.err THEN acc \o out.results ELSE acc

\* a loop that starts one goroutine per unique result
limitIgnored(n) == n

\* limit := 25; if len(orderedUniqueResults) < limit { limit = len(...) }
limitOf(n) == IF n < ExtractLimit THEN n ELSE ExtractLimit

\* `var streams []Stream` grown by append only: the slice is nil exactly
\* when nothing was appended to it (sort.Slice leaves a nil slice nil).
IsNilSlice(s) == Len(s) = 0

\* json.NewEncoder(w).Encode(map[string]interface{}{"streams": v}): the
\* body written.  encoding/json writes a nil slice as null and any other
\* slice, the empty one included, as an array.
Encode(isNil, v) ==
  [streams |-> IF isNil THEN [null |-> TRUE, items |-> <<>>]
               ELSE [null |-> FALSE, items |-> v]]

\* http.NotFound(w, r): the status and the body written
NotFound == [status |-> 404, body |-> "404 page not found\n"]

\* the response that Encode writes: no WriteHeader before it, status 200
Written(body) == [status |-> 200, body |-> body]

\* handleStream up to the loop that starts the search goroutines.  A path
\* of fewer than four parts is answered by http.NotFound; an identifier
\* without the prefix and a failed metadata lookup are answered with the
\* empty list.
Start(r) ==
  /\ hpc[r] = "start"
  /\ IF Len(PathParts(req[r].path)) < 4
     THEN /\ hpc' = [hpc EXCEPT ![r] = "done"]
          /\ wire' = [wire EXCEPT ![r] = Append(@, NotFound)]
          /\ UNCHANGED <<response, queries, spc, wgSearch>>
     ELSE IF ~Routed(req[r].path) \/ ~req[r].metaOK
     THEN /\ hpc' = [hpc EXCEPT ![r] = "done"]
          /\ response' = [response EXCEPT ![r] = <<>>]
          /\ wire' = [wire EXCEPT ![r] = Append(@, Written(Encode(FALSE, <<>>)))]
          /\ UNCHANGED <<queries, spc, wgSearch>>
     ELSE LET dq == dedupedQueries(req[r].meta, seasonOf(req[r].path),
                                   episodeOf(req[r].path)) IN
            /\ queries' = [queries EXCEPT ![r] = dq]
            /\ hpc' = [hpc EXCEPT ![r] = "search"]
            /\ UNCHANGED <<response, wire, spc, wgSearch>>
  /\ UNCHANGED <<req, sem, allResults, unique, epc, semExtract, wgExtract,
                 streams, fetched, qvars, rvars, fvars>>

\* One iteration of the loop over dedupedQueries: wgSearch.Add(1) and the
\* go statement, for the next query.
SearchSpawn(r) ==
  /\ hpc[r] = "search"
  /\ Len(spc[r]) < Len(queries[r])
  /\ wgSearch' = [wgSearch EXCEPT ![r] = @ + 1]
  /\ spc' = [spc EXCEPT ![r] = Append(@, "wait")]
  /\ UNCHANGED <<req, hpc, queries, sem, allResults, unique, epc, semExtract,
                 wgExtract, streams, response, wire, fetched, qvars, rvars,
                 fvars>>

\* sem <- struct{}{}, then the call of searchPrehraj
SearchAcquire(r, k) ==
  /\ k \in 1..Len(spc[r])
  /\ spc[r][k] = "wait"
  /\ CanSend(sem[r], SearchCap)
  /\ sem' = [sem EXCEPT ![r] = @ + 1]
  /\ spc' = [spc EXCEPT ![r][k] = "call"]
  /\ UNCHANGED <<req, hpc, queries, wgSearch, allResults, unique, epc,
                 semExtract, wgExtract, streams, response, wire, fetched,
                 qvars, rvars, fvars>>

\* searchPrehraj returns; the append between resMu.Lock and resMu.Unlock
SearchComplete(r, k) ==
  /\ k \in 1..Len(spc[r])
  /\ spc[r][k] = "call"
  /\ allResults' = [allResults EXCEPT ![r] = AccumulateResults(@, req[r].search[k])]
  /\ spc' = [spc EXCEPT ![r][k] = "unlocked"]
  /\ UNCHANGED <<req, hpc, queries, sem, wgSearch, unique, epc, semExtract,
                 wgExtract, streams, response, wire, fetched, qvars, rvars,
                 fvars>>

\* the deferred <-sem, the first of the two deferred calls to run
SearchRelease(r, k) ==
  /\ k \in 1..Len(spc[r])
  /\ spc[r][k] = "unlocked"
  /\ sem' = [sem EXCEPT ![r] = @ - 1]
  /\ spc' = [spc EXCEPT ![r][k] = "released"]
  /\ UNCHANGED <<req, hpc, queries, wgSearch, allResults, unique, epc,
                 semExtract, wgExtract, streams, response, wire, fetched,
                 qvars, rvars, fvars>>

\* the deferred wgSearch.Done(), the last step of the goroutine
SearchDone(r, k) ==
  /\ k \in 1..Len(spc[r])
  /\ spc[r][k] = "released"
  /\ wgSearch' = [wgSearch EXCEPT ![r] = @ - 1]
  /\ spc' = [spc EXCEPT ![r][k] = "done"]
  /\ UNCHANGED <<req, hpc, queries, sem, allResults, unique, epc,
                 semExtract, wgExtract, streams, response, wire, fetched,
                 qvars, rvars, fvars>>

\* The loop over dedupedQueries is over and wgSearch.Wait() returns;
\* filter, dedup and limit, up to the loop that starts the extraction
\* goroutines
SearchJoin(r) ==
  /\ hpc[r] = "search"
  /\ Len(spc[r]) = Len(queries[r])
  /\ WaitReturns(wgSearch[r])
  /\ unique' = [unique EXCEPT ![r] = UniqueResults(allResults[r], req[r].meta)]
  /\ hpc' = [hpc EXCEPT ![r] = "extract"]
  /\ UNCHANGED <<req, queries, spc, sem, wgSearch, allResults, epc, semExtract,
                 wgExtract, streams, response, wire, fetched, qvars, rvars,
                 fvars>>

\* One iteration of the loop `for i := 0; i < limit; i++`: wgExtract.Add(1)
\* and the go statement, for the next of orderedUniqueResults.
ExtractSpawn(r) ==
  /\ hpc[r] = "extract"
  /\ Len(epc[r]) < limitOf(Len(unique[r]))
  /\ wgExtract' = [wgExtract EXCEPT ![r] = @ + 1]
  /\ epc' = [epc EXCEPT ![r] = Append(@, "wait")]
  /\ UNCHANGED <<req, hpc, queries, spc, sem, wgSearch, allResults, unique,
                 semExtract, streams, response, wire, fetched, qvars, rvars,
                 fvars>>

\* semExtract <- struct{}{}, then the call of extractPrehrajStreams
ExtractAcquire(r, i) ==
  /\ i \in 1..Len(epc[r])
  /\ epc[r][i] = "wait"
  /\ CanSend(semExtract[r], ExtractCap)
  /\ semExtract' = [semExtract EXCEPT ![r] = @ + 1]
  /\ epc' = [epc EXCEPT ![r][i] = "call"]
  /\ fetched' = [fetched EXCEPT ![r] = @ (+) SetToBag({unique[r][i].URL})]
  /\ UNCHANGED <<req, hpc, queries, spc, sem, wgSearch, allResults, unique,
                 wgExtract, streams, response, wire, qvars, rvars, fvars>>

\* extractPrehrajStreams returns; the loop between streamMu.Lock and
\* streamMu.Unlock
ExtractComplete(r, i) ==
  /\ i \in 1..Len(epc[r])
  /\ epc[r][i] = "call"
  /\ streams' = [streams EXCEPT ![r] =
       AccumulateStreams(@, extractPrehrajStreams(SitePageOf(unique[r][i].URL)),
                         unique[r][i])]
  /\ epc' = [epc EXCEPT ![r][i] = "unlocked"]
  /\ UNCHANGED <<req, hpc, queries, spc, sem, wgSearch, allResults, unique,
                 semExtract, wgExtract, response, wire, fetched, qvars, rvars,
                 fvars>>

\* the deferred <-semExtract, the first of the two deferred calls to run
ExtractRelease(r, i) ==
  /\ i \in 1..Len(epc[r])
  /\ epc[r][i] = "unlocked"
  /\ semExtract' = [semExtract EXCEPT ![r] = @ - 1]
  /\ epc' = [epc EXCEPT ![r][i] = "released"]
  /\ UNCHANGED <<req, hpc, queries, spc, sem, wgSearch, allResults, unique,
                 wgExtract, streams, response, wire, fetched, qvars, rvars,
                 fvars>>

\* the deferred wgExtract.Done(), the last step of the goroutine
ExtractDone(r, i) ==
  /\ i \in 1..Len(epc[r])
  /\ epc[r][i] = "released"
  /\ wgExtract' = [wgExtract EXCEPT ![r] = @ - 1]
  /\ epc' = [epc EXCEPT ![r][i] = "done"]
  /\ UNCHANGED <<req, hpc, queries, spc, sem, wgSearch, allResults, unique,
                 semExtract, streams, response, wire, fetched, qvars, rvars,
                 fvars>>

\* The loop over the results is over and wgExtract.Wait() returns;
\* sort.Slice, which sorts streams in place, and the response
ExtractJoin(r) ==
  /\ hpc[r] = "extract"
  /\ Len(epc[r]) = limitOf(Len(unique[r]))
  /\ WaitReturns(wgExtract[r])
  /\ streams' = [streams EXCEPT ![r] = SortSlice(@, req[r].meta.Year)]
  /\ response' = [response EXCEPT ![r] = streams'[r]]
  /\ wire' = [wire EXCEPT ![r] =
       Append(@, Written(Encode(IsNilSlice(streams[r]), response'[r])))]
  /\ hpc' = [hpc EXCEPT ![r] = "done"]
  /\ UNCHANGED <<req, queries, spc, sem, wgSearch, allResults, unique, epc,
                 semExtract, wgExtract, fetched, qvars, rvars, fvars>>

Next ==
  \/ \E r \in Reqs : Start(r)
  \/ \E r \in Reqs : SearchSpawn(r)
  \/ \E r \in Reqs : \E k \in 1..Len(spc[r]) : SearchAcquire(r, k)
  \/ \E r \in Reqs : \E k \in 1..Len(spc[r]) : SearchComplete(r, k)
  \/ \E r \in Reqs : \E k \in 1..Len(spc[r]) : SearchRelease(r, k)
  \/ \E r \in Reqs : \E k \in 1..Len(spc[r]) : SearchDone(r, k)
  \/ \E r \in Reqs : SearchJoin(r)
  \/ \E r \in Reqs : ExtractSpawn(r)
  \/ \E r \in Reqs : \E i \in 1..Len(epc[r]) : ExtractAcquire(r, i)
  \/ \E r \in Reqs : \E i \in 1..Len(epc[r]) : ExtractComplete(r, i)
  \/ \E r \in Reqs : \E i \in 1..Len(epc[r]) : ExtractRelease(r, i)
  \/ \E r \in Reqs : \E i \in 1..Len(epc[r]) : ExtractDone(r, i)
  \/ \E r \in Reqs : ExtractJoin(r)

Init == HInit /\ QIdle /\ RIdle /\ FIdle

\* one request handled
Spec == Init /\ [][Next]_vars

\* The scheduling of the Go runtime: the handler of a request and each
\* set of its goroutines take a step when one stays possible, and a call of
\* searchPrehraj or extractPrehrajStreams that is in progress returns.
\* This is weak fairness of each action, WF_vars(A), spelled out as
\*   []<>~ENABLED <<A>>_vars \/ []<><<A>>_vars
\* with the enabling condition written as the guard of the action (every
\* step of an action changes a position, and its other conjuncts assign).
Fairness ==
  \A r \in Reqs :
    /\ \/ []<>~(hpc[r] = "start")
       \/ []<><<Start(r)>>_vars
    /\ \/ []<>~(hpc[r] = "search" /\ Len(spc[r]) < Len(queries[r]))
       \/ []<><<SearchSpawn(r)>>_vars
    /\ \/ []<>~(\E k \in 1..Len(spc[r]) :
                  spc[r][k] = "wait" /\ CanSend(sem[r], SearchCap))
       \/ []<><<\E k \in 1..Len(spc[r]) : SearchAcquire(r, k)>>_vars
    /\ \/ []<>~(\E k \in 1..Len(spc[r]) : spc[r][k] = "call")
       \/ []<><<\E k \in 1..Len(spc[r]) : SearchComplete(r, k)>>_vars
    /\ \/ []<>~(\E k \in 1..Len(spc[r]) : spc[r][k] = "unlocked")
       \/ []<><<\E k \in 1..Len(spc[r]) : SearchRelease(r, k)>>_vars
    /\ \/ []<>~(\E k \in 1..Len(spc[r]) : spc[r][k] = "released")
       \/ []<><<\E k \in 1..Len(spc[r]) : SearchDone(r, k)>>_vars
    /\ \/ []<>~(/\ hpc[r] = "search" /\ Len(spc[r]) = Len(queries[r])
                 /\ WaitReturns(wgSearch[r]))
       \/ []<><<SearchJoin(r)>>_vars
    /\ \/ []<>~(hpc[r] = "extract" /\ Len(epc[r]) < limitOf(Len(unique[r])))
       \/ []<><<ExtractSpawn(r)>>_vars
    /\ \/ []<>~(\E i \in 1..Len(epc[r]) :
                  epc[r][i] = "wait" /\ CanSend(semExtract[r], ExtractCap))
       \/ []<><<\E i \in 1..Len(epc[r]) : ExtractAcquire(r, i)>>_vars
    /\ \/ []<>~(\E i \in 1..Len(epc[r]) : epc[r][i] = "call")
       \/ []<><<\E i \in 1..Len(epc[r]) : ExtractComplete(r, i)>>_vars
    /\ \/ []<>~(\E i \in 1..Len(epc[r]) : epc[r][i] = "unlocked")
       \/ []<><<\E i \in 1..Len(epc[r]) : ExtractRelease(r, i)>>_vars
    /\ \/ []<>~(\E i \in 1..Len(epc[r]) : epc[r][i] = "released")
       \/ []<><<\E i \in 1..Len(epc[r]) : ExtractDone(r, i)>>_vars
    /\ \/ []<>~(/\ hpc[r] = "extract" /\ Len(epc[r]) = limitOf(Len(unique[r]))
                 /\ WaitReturns(wgExtract[r]))
       \/ []<><<ExtractJoin(r)>>_vars

\* the runs of few candidates and the run that has one extraction
\* goroutine more than semExtract has slots (the year filter drops one of
\* the videos returned)
InitFair ==
  /\ \E i \in RunInputsOver(SearchOutcomes) \cup {LargeRun(ExtractCap + 2)} :
       HInitWith([r \in Reqs |-> IF r = 1 THEN i ELSE Inactive])
  /\ QIdle /\ RIdle /\ FIdle

\* one request handled, under fair scheduling
SpecFair == InitFair /\ [][Next]_vars /\ Fairness

\* What searchPrehraj returns while two requests are handled: an error or
\* the first two videos.
SearchOutcomesMulti ==
  {[err |-> TRUE, results |-> <<>>],
   [err |-> FALSE, results |-> SubSeq(Catalog, 1, 2)]}

InitMulti ==
  /\ \E i, j \in RunInputsOver(SearchOutcomesMulti) :
       HInitWith([r \in Reqs |-> IF r = 1 THEN i ELSE j])
  /\ QIdle /\ RIdle /\ FIdle

\* two requests handled at the same time
SpecMulti == InitMulti /\ [][Next]_vars

InitQuery == QInit /\ RIdle /\ HIdle /\ FIdle

\* the query expansion on its own
SpecQuery == InitQuery /\ [][Expand]_vars

InitRank == RInit /\ QIdle /\ HIdle /\ FIdle

\* the merge and the ranking on their own
SpecRank == InitRank /\ [][RNext]_vars

\* Number of videos that a search with many hits returns.
BigCands == 27

\* the film title (two queries) with the answers sr of its searches
LimitRun(sr) ==
  [active |-> TRUE, path |-> "/stream/movie/eztmdb:402431.json",
   metaOK |-> TRUE, meta |-> Title("Wicked", "2024"), search |-> sr]

\* a few hits from both queries
FewHits == LimitRun(<<Hits(3), Hits(3)>>)

\* more hits than the limit, some returned by both queries
ManyHits == LimitRun(<<Hits(BigCands), Hits(3)>>)

\* one query with as many hits as the limit after the year filter while
\* the other fails
HitsAtLimit == LimitRun(<<Hits(BigCands - 1), [err |-> TRUE, results |-> <<>>]>>)

LimitInputs == {FewHits, ManyHits, HitsAtLimit}

\* The candidates of the successful searches, in the order of the queries.
RECURSIVE SearchedInOrder(_, _)
SearchedInOrder(search, k) ==
  IF k > Len(search) THEN <<>>
  ELSE (IF search[k].err THEN <<>> ELSE search[k].results)
         \o SearchedInOrder(search, k + 1)

\* One stream per descriptor of the successful extractions of the
\* candidates lo..hi of cands, in the order of the candidates.
RECURSIVE ExtractedInOrder(_, _, _)
ExtractedInOrder(cands, lo, hi) ==
  IF lo > hi THEN <<>>
  ELSE IF lo = hi
  THEN AccumulateStreams(<<>>, extractPrehrajStreams(SitePageOf(cands[lo].URL)),
                         cands[lo])
  ELSE ExtractedInOrder(cands, lo, (lo + hi) \div 2)
         \o ExtractedInOrder(cands, ((lo + hi) \div 2) + 1, hi)

\* The handler of request 1, of input i, in the extraction stage when the
\* searches have ended in the order of the queries and the extraction
\* goroutines lo..hi have run to their end one after the other: u is
\* orderedUniqueResults. With lo = 1 each goroutine has ended before the
\* loop started the next, and the handler is in the loop, about to start
\* goroutine hi + 1; otherwise the loop has started every goroutine and
\* those outside lo..hi have not sent on semExtract yet.
AtExtraction(i, u, lo, hi) ==
  LET Only(v, none) == [r \in Reqs |-> IF r = 1 THEN v ELSE none]
  IN /\ req = Only(i, Inactive)
     /\ hpc = Only("extract", "idle")
     /\ queries = Only(dedupedQueries(i.meta, seasonOf(i.path), episodeOf(i.path)), <<>>)
     /\ spc = Only([k \in 1..Len(i.search) |-> "done"], <<>>)
     /\ sem = Only(0, 0)
     /\ wgSearch = Only(0, 0)
     /\ allResults = Only(SearchedInOrder(i.search, 1), <<>>)
     /\ unique = Only(u, <<>>)
     /\ epc = Only(IF lo = 1 THEN [g \in 1..hi |-> "done"]
                    ELSE [g \in 1..limitOf(Len(u)) |->
                            IF g \in lo..hi THEN "done" ELSE "wait"], <<>>)
     /\ semExtract = Only(0, 0)
     /\ wgExtract = Only(IF lo = 1 THEN 0
                          ELSE limitOf(Len(u)) - (hi - lo + 1), 0)
     /\ streams = Only(ExtractedInOrder(u, lo, hi), <<>>)
     /\ response = Only(<<>>, <<>>)
     /\ wire = Only(<<>>, <<>>)
     /\ fetched = Only(SetToBag({u[g].URL : g \in lo..hi}), EmptyBag)

\* A run of many hits is taken up where all but ExtractCap + 1 of its
\* extraction goroutines have ended, the first ones or, for the run of
\* more hits than the limit, the last ones (the orders of 25 goroutines
\* from the start are too many to enumerate); the run of few hits starts
\* at its arrival.
InitLimit ==
  LET Firsts(i, u) == AtExtraction(i, u, 1, limitOf(Len(u)) - (ExtractCap + 1))
      Lasts(i, u) == AtExtraction(i, u, ExtractCap + 2, limitOf(Len(u)))
      Found(i) == UniqueResults(SearchedInOrder(i.search, 1), i.meta)
  IN /\ \/ HInitWith([r \in Reqs |-> IF r = 1 THEN FewHits ELSE Inactive])
        \/ Firsts(ManyHits, Found(ManyHits))
        \/ Lasts(ManyHits, Found(ManyHits))
        \/ Firsts(HitsAtLimit, Found(HitsAtLimit))
     /\ QIdle /\ RIdle /\ FIdle

\* one request with many hits, every schedule of its goroutines
SpecLimit == InitLimit /\ [][Next]_vars

InitFilter == FInit /\ QIdle /\ RIdle /\ HIdle

\* the filter and the deduplication on their own
SpecFilter == InitFilter /\ [][FilterAndDedup]_vars

(***************************************************************************)
(* Properties of ranking (SpecRank).                                       *)
(***************************************************************************)

\* The four ranking keys of a stream, as the comparator reads them.
RankKey(s, y) ==
  <<getRes(s.Name, s.Title), getStreamRes(s.Name), getSize(s.Title),
    IF Contains(s.Title, y) THEN 1 ELSE 0>>

LexGE(a, b) ==
  \/ a[1] > b[1]
  \/ a[1] = b[1] /\ a[2] > b[2]
  \/ a[1] = b[1] /\ a[2] = b[2] /\ Float64Greater(a[3], b[3])
  \/ a[1] = b[1] /\ a[2] = b[2] /\ a[3] = b[3] /\ a[4] >= b[4]

Count(seq, x) == Cardinality({k \in 1..Len(seq) : seq[k] = x})

IsPermutation(a, b) ==
  /\ Len(a) = Len(b)
  /\ \A x \in SeqRange(a) \cup SeqRange(b) : Count(a, x) = Count(b, x)

\* The streams of seq that tie with x on all four keys, in their order.
TiedWith(seq, x, y) ==
  SelectSeq(seq, LAMBDA e : RankKey(e, y) = RankKey(x, y))

\* C7: streams tied on all four ranking keys keep, in the sorted output,
\* the relative order they had in the merged list.
RankingIsStable ==
  rpc = "out" =>
    \A k \in 1..Len(rmerged) :
      TiedWith(rout, rmerged[k], ryear) = TiedWith(rmerged, rmerged[k], ryear)

\* C8: the sorted output is a permutation of the merged list in which the
\* key tuple never increases (lexicographic order, resolution first).
RankedLexicographically ==
  rpc = "out" =>
    /\ IsPermutation(rout, rmerged)
    /\ \A i, j \in 1..Len(rout) :
         i < j => LexGE(RankKey(rout[i], ryear), RankKey(rout[j], ryear))

\* A stream of higher source resolution and smaller size was moved in
\* front of one of lower resolution and larger size.
ResolutionBeatsSize ==
  /\ rpc = "out"
  /\ rout # rmerged
  /\ \E i, j \in 1..Len(rout) :
       /\ i < j
       /\ RankKey(rout[i], ryear)[1] > RankKey(rout[j], ryear)[1]
       /\ Float64Greater(RankKey(rout[j], ryear)[3], RankKey(rout[i], ryear)[3])

\* The number after the last "x" of the first line of a hint that is
\* followed by a number (the height of a "W x H" hint); 0 when there is
\* none.
HintHeight(h) ==
  LET xs == {k \in 1..Len(h) :
               /\ CharAt(h, k) = "x"
               /\ ~Contains(SubSeq(h, 1, k - 1), "\n")
               /\ DigitsAt(h, SkipSpace(h, k + 1)) # ""}
  IN IF xs = {} THEN 0
     ELSE DigitsVal(DigitsAt(h, SkipSpace(h, SetMax(xs) + 1)))

\* The hint scraped from the page of the candidate of merged stream k.
HintOf(k) == realResolution(rin[rfrom[k]].page)

\* The source of that page from which merged stream k was built.
SourceOf(k) ==
  LET sources == rin[rfrom[k]].page.sources IN
    sources[CHOOSE n \in 1..Len(sources) : sources[n].file = rmerged[k].URL]

\* "Source:" occurs in the origin of merged stream k only where the
\* pipeline writes it.
NoStraySource(k) ==
  LET o == rin[rfrom[k]] IN
    /\ ~Contains(o.res.Title \o o.res.Size \o o.res.Duration, "Source:")
    /\ ~Contains(realResolution(o.page), "Source:")
    /\ ~Contains(SourceOf(k).label, "Source:")

\* The key by pixel height: 2160 from height 2160, 1080 from height 1080.
KeyByHeight(h) ==
  IF h = "4K" \/ HintHeight(h) >= 2160 THEN 2160
  ELSE IF h = "1080p" \/ HintHeight(h) >= 1080 THEN 1080
  ELSE HintHeight(h)

\* C9 as stated: the source-resolution key of every stream is the key by
\* pixel height of the hint of its page.
SourceKeyIsByHeight ==
  rpc = "out" =>
    \A k \in 1..Len(rmerged) :
      getRes(rmerged[k].Name, rmerged[k].Title) = KeyByHeight(HintOf(k))

\* The key by the text of the hint: 2160 when it contains "3840" or
\* "2160", else 1080 when it contains "1920" or "1080", else 2160 when it
\* starts with "4K", else the number after the last "x" of its first line,
\* else 0.
KeyByText(h) ==
  IF Contains(h, "3840") \/ Contains(h, "2160") THEN 2160
  ELSE IF Contains(h, "1920") \/ Contains(h, "1080") THEN 1080
  ELSE IF HasPrefix(h, "4K") THEN 2160
  ELSE HintHeight(h)

\* The text recovered from the name under which merged stream k was
\* extracted.
RecoveredHint(k) == sourceResOf(StreamOfSource(SourceOf(k), HintOf(k)).Name)

\* The description of a candidate for a recovered text r: the lines of the
\* candidate and, for a text that is not empty, the line "Source: " with
\* "4K" for a text that contains "3840" or "2160", with "1080p" for one
\* that contains "1920" or "1080", and with the text itself otherwise.
DescribedWith(res, r) ==
  LET shown == IF Contains(r, "3840") \/ Contains(r, "2160") THEN "4K"
               ELSE IF Contains(r, "1920") \/ Contains(r, "1080") THEN "1080p"
               ELSE r
  IN description(res, "")
       \o (IF r # "" THEN "\n" \o Gear \o " Source: " \o shown ELSE "")

\* The key read from a description: 2160 when a "Source:" of it is followed
\* (after optional white space) by "4K", else 1080 when one is followed by
\* "1080p", else the number after the last "x" with a number behind it on
\* the line of the first "Source:" that has such an "x" after it, else 0.
KeyOfText(t) ==
  LET marks == OccurrencesFrom(t, "Source:", 1)
      Behind(i) == i + Len("Source:")
      Xs(i) == {k \in Behind(i)..Len(t) :
                  /\ CharAt(t, k) = "x"
                  /\ \A n \in Behind(i)..(k - 1) : CharAt(t, n) # "\n"
                  /\ IsDigit(CharAt(t, SkipSpace(t, k + 1)))}
      withX == {i \in marks : Xs(i) # {}}
  IN IF \E i \in marks : HasPrefixAt(t, SkipSpace(t, Behind(i)), "4K") THEN 2160
     ELSE IF \E i \in marks : HasPrefixAt(t, SkipSpace(t, Behind(i)), "1080p")
     THEN 1080
     ELSE IF withX = {} THEN 0
     ELSE DigitsVal(DigitsAt(t, SkipSpace(t, SetMax(Xs(SetMin(withX))) + 1)))

\* C9 amended: the source-resolution key of every stream is the key read
\* from the description that the candidate has with the text recovered
\* from the stream's name; where "Source:" occurs in neither the
\* candidate, the label nor the hint, that is the key by the text of the
\* hint.
SourceKeyIsByText ==
  rpc = "out" =>
    \A k \in 1..Len(rmerged) :
      /\ getRes(rmerged[k].Name, rmerged[k].Title)
           = KeyOfText(DescribedWith(rin[rfrom[k]].res, RecoveredHint(k)))
      /\ NoStraySource(k) =>
           getRes(rmerged[k].Name, rmerged[k].Title) = KeyByText(HintOf(k))

\* A hint of width 1920 and height 800 was ranked with key 1080, or one
\* of height 4320 with key 4320.
WideHintRanked ==
  /\ rpc = "out"
  /\ \E k \in 1..Len(rmerged) :
       /\ NoStraySource(k)
       /\ \/ HintOf(k) = "1920 x 800 px"
               /\ getRes(rmerged[k].Name, rmerged[k].Title) = 1080
          \/ HintOf(k) = "7680 x 4320 px"
               /\ getRes(rmerged[k].Name, rmerged[k].Title) = 4320

(***************************************************************************)
(* Properties of query expansion (SpecQuery).                              *)
(***************************************************************************)

\* The generated queries (finalQueries), each trimmed.
TrimmedFinal ==
  LET fq == finalQueries(qctx, qctx.season, qctx.episode)
  IN [k \in 1..Len(fq) |-> TrimSpace(fq[k])]

FirstIn(seq, q) == SetMin({k \in 1..Len(seq) : seq[k] = q})

\* C10: the query list holds no empty string and no two strings equal
\* after trimming; it holds every non-empty generated query, at the place
\* of its first occurrence.
QueriesCleanAndUnique ==
  qpc = "out" =>
    /\ \A i \in 1..Len(qout) : TrimSpace(qout[i]) # ""
    /\ \A i, j \in 1..Len(qout) :
         i # j => TrimSpace(qout[i]) # TrimSpace(qout[j])
    /\ SeqRange(qout) = SeqRange(TrimmedFinal) \ {""}
    /\ \A i, j \in 1..Len(qout) :
         i < j => FirstIn(TrimmedFinal, qout[i]) < FirstIn(TrimmedFinal, qout[j])

\* Two generated queries differ but are equal after trimming, and the
\* list was built.
DuplicateQueriesDropped ==
  /\ qpc = "out"
  /\ Len(qout) >= 2
  /\ LET fq == finalQueries(qctx, qctx.season, qctx.episode) IN
       \E i, j \in 1..Len(fq) :
         i < j /\ fq[i] # fq[j] /\ TrimSpace(fq[i]) = TrimSpace(fq[j])

(***************************************************************************)
(* Properties of the handler (Spec, SpecMulti).                            *)
(***************************************************************************)

\* the calls in flight among the goroutines at the positions pcs
InFlight(pcs) == Cardinality({k \in 1..Len(pcs) : pcs[k] = "call"})

AllDone(pcs) == \A k \in 1..Len(pcs) : pcs[k] = "done"

\* the paths of the requests that go past the checks of handleStream
RoutedPaths ==
  {p \in {t.path : t \in RunTitles} \cup {q.path : q \in EarlyReturns} : Routed(p)}

\* the request q goes into the pipeline of searches and extractions
ReachesPipeline(q) == q.metaOK /\ q.path \in RoutedPaths

\* the goroutine at position pc is past its append under the mutex
Merged(pc) == pc \in {"unlocked", "released", "done"}

\* the handler of request r is past wgSearch.Wait
PastSearchJoin(r) == ReachesPipeline(req[r]) /\ hpc[r] \in {"extract", "done"}

\* the handler of request r is past wgExtract.Wait
PastExtractJoin(r) == ReachesPipeline(req[r]) /\ hpc[r] = "done"

\* C1: in one run at most 1 searchPrehraj call and at most 5
\* extractPrehrajStreams calls are in flight, at every moment of every
\* interleaving.
SlotsRespected ==
  \A r \in Reqs : InFlight(spc[r]) <= 1 /\ InFlight(epc[r]) <= 5

\* A run of two queries has five extractions in flight and a sixth
\* goroutine waiting for a slot.
ExtractionSlotsFull ==
  /\ Len(queries[1]) >= 2
  /\ InFlight(epc[1]) = 5
  /\ \E i \in 1..Len(epc[1]) : epc[1][i] = "wait"

\* C2: at most one searchPrehraj call is in flight in the whole process,
\* also while two requests are handled.
OneSearchInProcess ==
  InFlight(spc[1]) + InFlight(spc[2]) <= 1

\* C3: filtering and deduplication start only after every search of the
\* run completed, no extraction starts while a search of the run is in
\* flight, and sorting and the response come only after every extraction
\* completed.
BarriersHold ==
  \A r \in Reqs :
    /\ PastSearchJoin(r) => Len(spc[r]) = Len(queries[r]) /\ AllDone(spc[r])
    /\ Len(epc[r]) > 0 => Len(spc[r]) = Len(queries[r]) /\ AllDone(spc[r])
    /\ PastExtractJoin(r) =>
         Len(epc[r]) = limitOf(Len(unique[r])) /\ AllDone(epc[r])
    /\ response[r] # <<>> => hpc[r] = "done" /\ AllDone(epc[r])

\* A run of two queries and six or more candidates answered with streams.
AnsweredAfterBothJoins ==
  /\ hpc[1] = "done"
  /\ Len(spc[1]) >= 2
  /\ Len(epc[1]) >= 6
  /\ response[1] # <<>>

\* C4: after the search join allResults holds the candidates returned by
\* the successful searches, each as often as returned; after the
\* extraction join the merged list holds one stream per descriptor of the
\* successful extractions.
NoLostUpdates ==
  \A r \in Reqs :
    /\ PastSearchJoin(r) =>
         IsPermutation(allResults[r], SearchedInOrder(req[r].search, 1))
    /\ PastExtractJoin(r) =>
         IsPermutation(streams[r],
                       ExtractedInOrder(unique[r], 1, Len(epc[r])))

\* Two searches both returned candidates, the same ones, and three
\* extractions returned descriptors.
TwoSearchesAccumulated ==
  /\ PastExtractJoin(1)
  /\ \E j, k \in 1..Len(queries[1]) :
       /\ j # k
       /\ req[1].search[j].results # <<>>
       /\ req[1].search[k].results # <<>>
  /\ Len(allResults[1]) > NumCands
  /\ Len(streams[1]) >= 4

\* C5: in a run with a failing search, every query was executed by the
\* join, the failing searches added nothing to allResults and the
\* candidates of every successful search are in it.
FailedSearchIsolated ==
  \A r \in Reqs :
    (PastSearchJoin(r) /\ \E k \in 1..Len(queries[r]) : req[r].search[k].err) =>
      /\ Len(spc[r]) = Len(queries[r]) /\ AllDone(spc[r])
      /\ \A k \in 1..Len(queries[r]) :
           ~req[r].search[k].err =>
             SeqRange(req[r].search[k].results) \subseteq SeqRange(allResults[r])
      /\ Len(allResults[r]) = Len(SearchedInOrder(req[r].search, 1))

\* One search failed, another returned candidates, and the run answered
\* with streams.
AnsweredDespiteFailure ==
  /\ PastExtractJoin(1)
  /\ \E j, k \in 1..Len(queries[1]) :
       req[1].search[j].err /\ req[1].search[k].results # <<>>
  /\ response[1] # <<>>

\* The response of the run in which the searches complete in the order of
\* the queries and the extractions in the order of the candidates.
ResponseInOrder(q) ==
  IF ~ReachesPipeline(q) THEN <<>>
  ELSE LET Ranked(u) ==
             SortSlice(ExtractedInOrder(u, 1, IF Len(u) < ExtractLimit THEN Len(u)
                                              ELSE ExtractLimit),
                       q.meta.Year)
       IN Ranked(UniqueResults(SearchedInOrder(q.search, 1), q.meta))

\* C6: for a fixed title and fixed answers of the collaborators the
\* response is the same list in every interleaving.
ResponseIsDeterministic ==
  \A r \in Reqs : hpc[r] = "done" => response[r] = ResponseInOrder(req[r])

(***************************************************************************)
(* Properties of query expansion, continued (SpecQuery).                   *)
(***************************************************************************)

\* C11: a title context whose name is empty yields no query, whatever its
\* year, original name, season and episode are.
EmptyNameYieldsNoQuery ==
  (qpc = "out" /\ qctx.Name = "") => qout = <<>>

(***************************************************************************)
(* Properties of the filter and the deduplication (SpecFilter).            *)
(***************************************************************************)

\* c is an ASCII letter, a digit or an underscore, and not the end of the
\* digraph of an accented letter (before being the character before c)
AsciiWordChar(before, c) == IsWordChar(c) /\ before \notin {"^", "~"}

\* The years 1900..2099 written in title as four digits that stand alone:
\* neither the character before nor the one after is an ASCII letter, a
\* digit or an underscore.
StandaloneYears(title) ==
  {y \in {DigitsVal(SubSeq(title, i, i + 3)) :
            i \in {j \in 1..(Len(title) - 3) :
                     /\ AllDigits(SubSeq(title, j, j + 3))
                     /\ ~AsciiWordChar(CharAt(title, j - 2), CharAt(title, j - 1))
                     /\ ~AsciiWordChar(CharAt(title, j + 3), CharAt(title, j + 4))}} :
     y >= 1900 /\ y <= 2099}

\* The year filter is in force: the target year reads as a positive number.
YearFilterOn(metaYear) == Atoi(metaYear) > 0

\* The year filter, when in force, keeps a title without a standalone year
\* and a title with a standalone year equal to the target year.
PassesYear(title, metaYear) ==
  YearFilterOn(metaYear) =>
    (StandaloneYears(title) = {} \/ Atoi(metaYear) \in StandaloneYears(title))

\* the positions of seq whose entry has the address url
PositionsOf(seq, url) == {k \in 1..Len(seq) : seq[k].URL = url}

\* the addresses that two or more entries of seq have
RepeatedURLs(seq) ==
  {seq[k].URL : k \in {j \in 1..Len(seq) : Cardinality(PositionsOf(seq, seq[j].URL)) > 1}}

\* C12 as stated: an address that two or more accumulated results have has
\* exactly one entry in the output of the filter and the deduplication,
\* the first accumulated result with that address.
RepeatedAddressKeptOnceFirst ==
  fpc = "out" =>
    \A u \in RepeatedURLs(fin) :
      /\ Cardinality(PositionsOf(funique, u)) = 1
      /\ \A k \in PositionsOf(funique, u) :
           funique[k] = fin[SetMin(PositionsOf(fin, u))]

\* C12 amended: an address that two or more accumulated results have has
\* at most one entry in the output; it has none when the year filter
\* rejects every accumulated result with that address, and otherwise the
\* entry is the first accumulated result with that address that the year
\* filter keeps.
RepeatedAddressKeptOnceFirstPassing ==
  fpc = "out" =>
    \A u \in RepeatedURLs(fin) :
      LET passing == {k \in PositionsOf(fin, u) :
                        PassesYear(fin[k].Title, fmeta.Year)}
      IN IF passing = {}
         THEN PositionsOf(funique, u) = {}
         ELSE /\ Cardinality(PositionsOf(funique, u)) = 1
              /\ \A k \in PositionsOf(funique, u) :
                   funique[k] = fin[SetMin(passing)]

\* C12 witness: the first result of a repeated address is rejected by the
\* year filter and a later one with that address is in the output.
LaterEntryOfAddressKept ==
  /\ fpc = "out"
  /\ \E u \in RepeatedURLs(fin) :
       /\ ~PassesYear(fin[SetMin(PositionsOf(fin, u))].Title, fmeta.Year)
       /\ \E k \in PositionsOf(funique, u) :
            funique[k] # fin[SetMin(PositionsOf(fin, u))]

\* the years 19xx and 20xx that occur in title as four consecutive
\* characters, whatever stands around them
SubstringYears(title) ==
  {DigitsVal(SubSeq(title, i, i + 3)) :
     i \in {j \in 1..(Len(title) - 3) :
              /\ SubSeq(title, j, j + 1) \in {"19", "20"}
              /\ AllDigits(SubSeq(title, j + 2, j + 3))}}

\* C13 as stated: with a non-empty numeric target year (read as a number
\* above zero) a candidate is kept if and only if its title contains no
\* four-digit substring 19xx/20xx or contains one equal to the target year.
YearFilterBySubstring ==
  (fpc = "out" /\ AllDigits(fmeta.Year) /\ DigitsVal(fmeta.Year) > 0) =>
    \A k \in 1..Len(fin) :
      fin[k] \in SeqRange(fout)
        <=> (SubstringYears(fin[k].Title) = {}
               \/ DigitsVal(fmeta.Year) \in SubstringYears(fin[k].Title))

\* C13 amended: with a target year that reads as a positive number a
\* candidate is kept if and only if its title contains no standalone year
\* 19xx/20xx or contains one equal to the target year; with any other
\* target year every candidate is kept.
YearFilterByStandaloneYear ==
  fpc = "out" =>
    \A k \in 1..Len(fin) :
      fin[k] \in SeqRange(fout)
        <=> (YearFilterOn(fmeta.Year) =>
               (StandaloneYears(fin[k].Title) = {}
                  \/ Atoi(fmeta.Year) \in StandaloneYears(fin[k].Title)))

\* C13 witness: with the target year 2024 a title with the standalone year
\* 2019 was dropped, and titles with 2019 glued to a word and with the two
\* years 2019 and 2024 were kept.
GluedYearKeptOtherYearDropped ==
  /\ fpc = "out" /\ fmeta.Year = "2024"
  /\ \E k \in 1..Len(fin) :
       fin[k].Title = "Wicked 2019" /\ fin[k] \notin SeqRange(fout)
  /\ \E k \in 1..Len(fin) :
       fin[k].Title = "Wicked_2019" /\ fin[k] \in SeqRange(fout)
  /\ \E k \in 1..Len(fin) :
       fin[k].Title = "Pomsta 2019 2024" /\ fin[k] \in SeqRange(fout)

\* C14: whatever names are passed, the output of filterPrehrajResults is
\* the input without the candidates the year filter rejects, in the order
\* of the input; with a target year that is empty or not a number it is
\* the input.
FilterOutputIsYearFilteredInput ==
  fpc = "out" =>
    /\ fout = SelectSeq(fin, LAMBDA res : PassesYear(res.Title, fmeta.Year))
    /\ (fmeta.Year = "" \/ ~AllDigits(fmeta.Year)) => fout = fin

\* C14 witness: the output holds a candidate whose title contains none of
\* the names, after a candidate that the year filter rejected and before
\* one that it kept.
UnrelatedTitleKeptInOrder ==
  /\ fpc = "out" /\ Len(fin) = 3 /\ Len(fout) = 2
  /\ ~PassesYear(fin[1].Title, fmeta.Year)
  /\ fout = <<fin[2], fin[3]>>
  /\ fin[2] # fin[3]
  /\ \A n \in 1..Len(metaNamesOf(fmeta)) :
       ~Contains(fin[2].Title, metaNamesOf(fmeta)[n])

(***************************************************************************)
(* Properties of the handler, continued (Spec, SpecLimit).                 *)
(***************************************************************************)

\* the number of goroutines of pcs that have passed their semaphore
Started(pcs) == Cardinality({i \in 1..Len(pcs) : pcs[i] # "wait"})

\* C15: in one run at most 25 extractions are started, one for each of
\* the first min(25, n) of the n unique candidates and nothing else: every
\* address fetched is fetched once, belongs to one of these candidates,
\* and to an accumulated result that the year filter keeps.
ExtractionLimited ==
  \A r \in Reqs :
    PastSearchJoin(r) =>
      /\ Len(epc[r]) <= 25
      /\ Len(epc[r]) <= (IF Len(unique[r]) < 25 THEN Len(unique[r]) ELSE 25)
      /\ PastExtractJoin(r) =>
           Len(epc[r]) = (IF Len(unique[r]) < 25 THEN Len(unique[r]) ELSE 25)
      /\ BagCardinality(fetched[r]) = Started(epc[r])
      /\ \A u \in BagToSet(fetched[r]) :
           /\ CopiesIn(u, fetched[r]) = 1
           /\ \E i \in 1..Len(epc[r]) : epc[r][i] # "wait" /\ unique[r][i].URL = u
           /\ \E k \in 1..Len(allResults[r]) :
                /\ allResults[r][k].URL = u
                /\ PassesYear(allResults[r][k].Title, req[r].meta.Year)

\* C15 witness: more than 25 unique candidates, the extractions of the
\* first 25 called and over, and the response written.
LimitCutsExtractions ==
  /\ Len(unique[1]) > 25 /\ Len(epc[1]) = 25
  /\ Started(epc[1]) = 25
  /\ BagCardinality(fetched[1]) = 25
  /\ \A i \in 1..25 : epc[1][i] = "done"
  /\ hpc[1] = "done"
  /\ Len(allResults[1]) > Len(unique[1]) + 1

\* a details page that was fetched and has no source with a file
HasNoSource(page) ==
  page.ok /\ \A k \in 1..Len(page.sources) : page.sources[k].file = ""

\* the files of the sources of a fetched details page
FilesOf(page) ==
  IF page.ok
  THEN {page.sources[k].file : k \in {j \in 1..Len(page.sources) : page.sources[j].file # ""}}
  ELSE {}

\* the details pages of the candidates whose extraction goroutine is past
\* its loop under streamMu
PagesDone(r) ==
  {SitePageOf(unique[r][i].URL) : i \in {j \in 1..Len(epc[r]) : Merged(epc[r][j])}}

\* C16: a details page without a source with a file makes
\* extractPrehrajStreams return an error and no stream; the merged list
\* holds exactly the streams of the sources of the other pages extracted
\* so far, and the response is that list of every candidate extracted, as
\* sort.Slice leaves it.
EmptyPageContributesNothing ==
  \A r \in Reqs :
    /\ \A i \in 1..Len(epc[r]) :
         HasNoSource(SitePageOf(unique[r][i].URL)) =>
           /\ extractPrehrajStreams(SitePageOf(unique[r][i].URL)).err
           /\ extractPrehrajStreams(SitePageOf(unique[r][i].URL)).streams = <<>>
    /\ {streams[r][k].URL : k \in 1..Len(streams[r])}
         = UNION {FilesOf(pg) : pg \in PagesDone(r)}
    /\ Len(streams[r]) = Cardinality(UNION {FilesOf(pg) : pg \in PagesDone(r)})
    /\ PastExtractJoin(r) =>
         /\ AllDone(epc[r])
         /\ response[r] = streams[r]

\* C16 witness: a run has answered with the four streams of three
\* candidates after the extraction of a candidate whose page has no source.
AnsweredDespiteEmptyPage ==
  /\ PastExtractJoin(1)
  /\ \E i \in 1..Len(epc[1]) : HasNoSource(SitePageOf(unique[1][i].URL))
  /\ Len(response[1]) = 4

\* C17: a handled request whose path names a stream writes exactly one
\* response, whose streams value is a list: the empty list when no stream
\* was found.
AlwaysAnswersWithList ==
  \A r \in Reqs :
    /\ Len(wire[r]) <= 1
    /\ (hpc[r] = "done" /\ req[r].path # ShortPath) =>
         /\ Len(wire[r]) = 1
         /\ wire[r][1].status = 200
         /\ ~wire[r][1].body.streams.null
         /\ Len(streams[r]) = 0 => wire[r][1].body.streams.items = <<>>

\* the addresses of the hits of results that the year filter keeps
SurvivingURLs(results, metaYear) ==
  {results[k].URL : k \in {j \in 1..Len(results) : PassesYear(results[j].Title, metaYear)}}

\* every query of request r got the same non-empty list of hits
SameHitsForEveryQuery(r) ==
  /\ Len(req[r].search) > 0
  /\ \A k \in 1..Len(req[r].search) :
       /\ ~req[r].search[k].err
       /\ req[r].search[k].results = req[r].search[1].results
       /\ Len(req[r].search[k].results) > 0

\* C18: when every query returns the same hits and one address survives
\* the year filter, the response has one entry per source of that
\* address's details page, each with the source's file and its label in
\* the display name, and the address was fetched once and nothing else was.
OneSurvivorOneExtraction ==
  \A r \in Reqs :
    (PastExtractJoin(r) /\ SameHitsForEveryQuery(r)) =>
      \A u \in SurvivingURLs(req[r].search[1].results, req[r].meta.Year) :
        SurvivingURLs(req[r].search[1].results, req[r].meta.Year) = {u} =>
          /\ Len(response[r]) = Cardinality(FilesOf(SitePageOf(u)))
          /\ \A e \in 1..Len(response[r]) :
               \E k \in 1..Len(SitePageOf(u).sources) :
                 /\ response[r][e].URL = SitePageOf(u).sources[k].file
                 /\ Contains(response[r][e].Name, SitePageOf(u).sources[k].label)
          /\ fetched[r] = SetToBag({u})

\* C18 witness: two queries returned the same two hits, one of another
\* year, and the response has the two entries of the surviving address,
\* labelled 1080p and 720p.
TwoQueriesOneSurvivorAnswered ==
  /\ PastExtractJoin(1) /\ SameHitsForEveryQuery(1)
  /\ Len(req[1].search) = 2
  /\ Len(allResults[1]) = 4 /\ Len(unique[1]) = 1
  /\ Len(response[1]) = 2
  /\ {response[1][e].Name : e \in 1..2}
       = {"Prehraj.to " \o Bolt \o " 1080p", "Prehraj.to " \o Bolt \o " 720p"}

\* the run of request r is over: every goroutine has run and released its
\* slot, both joins have completed and the response is written
RunOver(r) ==
  /\ hpc[r] = "done"
  /\ Len(spc[r]) = Len(queries[r]) /\ AllDone(spc[r])
  /\ Len(epc[r]) = limitOf(Len(unique[r])) /\ AllDone(epc[r])
  /\ sem[r] = 0 /\ semExtract[r] = 0
  /\ wgSearch[r] = 0 /\ wgExtract[r] = 0
  /\ Len(wire[r]) = 1

\* C19: under fair scheduling every run that starts is over at some
\* point: all its goroutines have acquired and released their slots, both
\* joins have completed and handleStream has responded.
EveryRunTerminates ==
  \A r \in Reqs : (hpc[r] = "start") ~> RunOver(r)

\* C19 witness: a run with two search goroutines and six extraction
\* goroutines, more than the five slots, is over.
LargeRunOver ==
  /\ ReachesPipeline(req[1]) /\ RunOver(1)
  /\ Len(spc[1]) = 2 /\ Len(epc[1]) > ExtractCap

(***************************************************************************)
(* Properties of the normalisation (SpecQuery).                            *)
(***************************************************************************)

\* The normalized variant as specified: the accented letters folded, each
\* of the characters ".", "_", "-", ":" replaced by a space, and every run
\* of spaces collapsed to one.
NormalizedAsSpecified(name) ==
  CollapseDoubleSpaces(
    ReplaceAll(ApplyReplacements(name, Replacements, 1, Len(Replacements)),
               "_", " "))

\* C20: the normalized variant of the name (punctuation ".", "_", "-", ":"
\* replaced by spaces, runs of white space collapsed, diacritics folded) is
\* emitted as a query whenever it differs from the raw name.
NormalizedVariantEmitted ==
  qpc = "out" =>
    (NormalizedAsSpecified(qctx.Name) # qctx.Name =>
       TrimSpace(NormalizedAsSpecified(qctx.Name)
                   \o Suffix(qctx.season, qctx.episode)) \in SeqRange(qout))

(***************************************************************************)
(* Composition of the queries (SpecQuery).                                 *)
(***************************************************************************)

\* The number that a season or episode part writes: a decimal integer with
\* an optional sign; 0 when the part is not such a number.
PartNumber(p) ==
  LET signed == CharAt(p, 1) \in {"+", "-"}
      digits == IF signed THEN SubSeq(p, 2, Len(p)) ELSE p
  IN IF ~AllDigits(digits) THEN 0
     ELSE IF CharAt(p, 1) = "-" THEN 0 - DigitsVal(digits)
     ELSE DigitsVal(digits)

\* A number written with two characters at least: 0..9 with a leading zero,
\* a negative number with its sign, any other number as it is.
TwoOrMore(n) ==
  IF n < 0 THEN "-" \o NatStr(0 - n)
  ELSE IF n <= 9 THEN "0" \o NatStr(n)
  ELSE NatStr(n)

\* " S<season>E<episode>" when both are present
EpisodeSuffix(ctx) ==
  IF ctx.season # "" /\ ctx.episode # ""
  THEN " S" \o TwoOrMore(PartNumber(ctx.season))
         \o "E" \o TwoOrMore(PartNumber(ctx.episode))
  ELSE ""

\* " S" + two digits + "E" + two digits
TwoDigitForm(suffix) ==
  /\ Len(suffix) = Len(" S00E00")
  /\ SubSeq(suffix, 1, 2) = " S" /\ AllDigits(SubSeq(suffix, 3, 4))
  /\ CharAt(suffix, 5) = "E" /\ AllDigits(SubSeq(suffix, 6, 7))

\* The queries as composed: for each variant, in variant order, the variant
\* with the suffix and then, when there is a year, the variant with " year"
\* and the suffix; each trimmed.
ComposedQueries(ctx) ==
  LET variants == NameQueries(ctx)
      per == IF ctx.Year = "" THEN 1 ELSE 2
      YearFragment(k) == IF (k - 1) % per = 1 THEN " " \o ctx.Year ELSE ""
  IN [k \in 1..(per * Len(variants)) |->
        TrimSpace(variants[((k - 1) \div per) + 1]
                    \o YearFragment(k) \o EpisodeSuffix(ctx))]

\* C21 amended: every emitted query is a variant followed by the year
\* fragment (empty or " year") and then the suffix, trimmed; the suffix is
\* " S" + season + "E" + episode when season and episode are both present
\* and empty otherwise, each of the two written as the number of the part
\* (0 when it is no number) with two characters at least, hence with more
\* than two digits from 100 on and with a sign below 0; the queries are
\* emitted variant by variant, the one without year before the one with
\* year (each at its first occurrence); with season and episode present
\* every query ends with the suffix.
QueriesComposedInOrder ==
  qpc = "out" =>
    /\ SeqRange(qout) = SeqRange(ComposedQueries(qctx)) \ {""}
    /\ \A i, j \in 1..Len(qout) :
         i < j => FirstIn(ComposedQueries(qctx), qout[i])
                    < FirstIn(ComposedQueries(qctx), qout[j])
    /\ (qctx.season # "" /\ qctx.episode # "") =>
         \A i \in 1..Len(qout) :
           \/ HasSuffix(qout[i], EpisodeSuffix(qctx))
           \/ qout[i] = TrimSpace(EpisodeSuffix(qctx))

\* C21 as stated: the queries are composed in that order and the suffix
\* writes the season and the episode with two digits each.
QueriesComposedTwoDigit ==
  qpc = "out" =>
    /\ QueriesComposedInOrder
    /\ (qctx.season # "" /\ qctx.episode # "") =>
         TwoDigitForm(EpisodeSuffix(qctx))

\* A title with a year, season 1 and episode 100 was expanded: the first
\* variant's two queries lead the list, the one without year first, and
\* the episode is written with three digits.
EpisodeHundredComposed ==
  /\ qpc = "out"
  /\ qctx.Name = "Wicked" /\ qctx.OriginalName = "Am^elie"
  /\ qctx.Year = "2024" /\ qctx.season = "1" /\ qctx.episode = "100"
  /\ Len(qout) = 6
  /\ qout[1] = "Wicked S01E100" /\ qout[2] = "Wicked 2024 S01E100"
  /\ qout[3] = "Am^elie S01E100" /\ qout[6] = "Amelie 2024 S01E100"

(***************************************************************************)
(* The resolution hint from the details page to the description            *)
(* (SpecHint): pages whose resolution item has several span elements, and  *)
(* labels and span texts that contain "Source:" themselves.                *)
(***************************************************************************)

HintSpans == {ResolutionMarker, "720p", "480p", " 576p ", "Source: HD"}

\* Longest list of span elements in the resolution item.
MaxSpans == 3

SpanLists == UNION {[1..n -> HintSpans] : n \in 0..MaxSpans}

HintLabels == {<<"720p">>, <<"720p", "">>, <<"Source: HD">>}

\* one candidate with a details page whose resolution item has the spans
HintOrigin(spans, labels) ==
  [res  |-> Cand("Wicked 2024 CZ", "5.2 GB", "https://prehraj.to/a"),
   page |-> [Page("", labels, "https://cdn/a") EXCEPT !.spans = spans]]

InitHint ==
  /\ \E s \in SpanLists, l \in HintLabels : rin = <<HintOrigin(s, l)>>
  /\ ryear = ""
  /\ rmerged = <<>> /\ rfrom = <<>> /\ rdone = {} /\ rout = <<>>
  /\ rpc = "in"
  /\ QIdle /\ HIdle /\ FIdle

\* extraction, merge and ranking of one page
SpecHint == InitHint /\ [][RNext]_vars

\* the spans of the page that do not contain the marker
HintCandidates(page) ==
  {n \in 1..Len(page.spans) : ~Contains(page.spans[n], ResolutionMarker)}

\* the first of them, trimmed
FirstHint(page) == TrimSpace(page.spans[SetMin(HintCandidates(page))])

\* neither a span nor a label of the page contains "Source:"
PlainPage(page) ==
  /\ \A n \in 1..Len(page.spans) : ~Contains(page.spans[n], "Source:")
  /\ \A n \in 1..Len(page.sources) : ~Contains(page.sources[n].label, "Source:")

\* C23: when the resolution item has several spans that do not contain the
\* marker, the hint is the first of them, and every stream built from the
\* page carries that one hint.
HintIsFirstSibling ==
  rpc = "out" =>
    \A k \in 1..Len(rmerged) :
      LET o == rin[rfrom[k]] IN
        (PlainPage(o.page) /\ Cardinality(HintCandidates(o.page)) >= 2) =>
          rmerged[k].Title = description(o.res, FirstHint(o.page))

\* C25: for every label and every resolution text, the hint that the merge
\* recovers from the stream's name is the resolution text scraped from the
\* page, and it is empty exactly when none was scraped.
HintRoundTrip ==
  rpc = "out" =>
    \A k \in 1..Len(rmerged) :
      LET o == rin[rfrom[k]] IN
        rmerged[k].Title = description(o.res, realResolution(o.page))

(***************************************************************************)
(* Pairing of the streams with their candidates (Spec).                    *)
(***************************************************************************)

\* the files of the sources of a details page, in page order
FileList(page) ==
  LET idx == {j \in 1..Len(page.sources) : page.sources[j].file # ""}
  IN [n \in 1..Cardinality(idx) |->
        page.sources[CHOOSE j \in idx :
                       Cardinality({i \in idx : i <= j}) = n].file]

\* the candidates of run r whose details page holds the file at url
OriginsOf(r, url) ==
  {i \in 1..Len(epc[r]) : url \in FilesOf(SitePageOf(unique[r][i].URL))}

\* the first two lines of the description of a stream of candidate res
OriginLines(res) ==
  Folder \o " " \o res.Title \o "\n" \o Disk \o " " \o res.Size
    \o " " \o Bullet \o " " \o Clock \o " " \o res.Duration

\* C24: in every interleaving each stream of the merged list shows the
\* title, the size and the duration of the one candidate whose details page
\* was fetched for it, and the streams of one candidate's page stand next to
\* each other in the merged list, in the order of the page.  The merged
\* list is streams up to the return of wgExtract.Wait; sort.Slice then
\* reorders streams in place, which keeps each stream's candidate and may
\* part the streams of one page.
StreamsPairedWithOrigin ==
  \A r \in Reqs :
    /\ \A k \in 1..Len(streams[r]) :
         /\ Cardinality(OriginsOf(r, streams[r][k].URL)) = 1
         /\ \A i \in OriginsOf(r, streams[r][k].URL) :
              /\ Merged(epc[r][i])
              /\ BagIn(unique[r][i].URL, fetched[r])
              /\ HasPrefix(streams[r][k].Title, OriginLines(unique[r][i]))
    /\ \A k, n \in 1..Len(streams[r]) :
         k # n => streams[r][k].URL # streams[r][n].URL
    /\ \A i \in 1..Len(epc[r]) :
         (/\ hpc[r] = "extract"
          /\ Merged(epc[r][i])
          /\ FilesOf(SitePageOf(unique[r][i].URL)) # {}) =>
           \E start \in 1..Len(streams[r]) :
             LET files == FileList(SitePageOf(unique[r][i].URL)) IN
               /\ start + Len(files) - 1 <= Len(streams[r])
               /\ \A j \in 1..Len(files) :
                    streams[r][start + j - 1].URL = files[j]

\* The extraction of a later candidate completed before that of the first
\* one: its stream leads the merged list and the two streams of the first
\* candidate's page follow as a block, each with its own candidate's lines.
LaterCandidateMergedFirst ==
  /\ hpc[1] = "extract"
  /\ Len(streams[1]) >= 3
  /\ streams[1][1].URL = "https://cdn/v4/1.mp4"
  /\ HasPrefix(streams[1][1].Title, OriginLines(SiteCand(4)))
  /\ streams[1][2].URL = "https://cdn/v1/1.mp4"
  /\ streams[1][3].URL = "https://cdn/v1/2.mp4"
  /\ HasPrefix(streams[1][3].Title, OriginLines(SiteCand(1)))
  /\ OriginLines(SiteCand(1)) # OriginLines(SiteCand(4))

====
